---- MODULE Spec2Model ----
(***************************************************************************)
(* RunBuddy: the Durable Object RunBuddyAgent (run-buddy-agent.ts) and the *)
(* routing of requests to its instances (index.ts).                        *)
(*                                                                         *)
(* One instance exists per name (idFromName).  An instance owns one        *)
(* storage record under the key "state" and one input gate                 *)
(* (blockConcurrencyWhile).  Every await of the handler is a step          *)
(* boundary: a storage read, the continuation that computes and writes,    *)
(* the inference call.                                                     *)
(***************************************************************************)
EXTENDS Integers, Sequences, FiniteSets, TLC

\* ---------------------------------------------------------------- bounds
\* Number of requests / operations that are ever delivered.
NumReqs == 3
\* Last value of the clock (Date.now()), in ticks.
MaxTime == 2
\* The limit and windowMs arguments handleChat passes to assertWithinRateLimit
\* (MAX_DAILY_REQUESTS and RATE_LIMIT_WINDOW_MS in the source), scaled down.
Limit == 2
WindowMs == 2
\* The caps on the number of messages (40 in the worker's schema, 50 in the
\* actor's) and on the length of a text (4000), scaled down.
chatMaxMessages == 2
agentMaxMessages == 3
maxTextLength == 2
\* The cap on the bytes of a body.
MAX_PAYLOAD_BYTES == 64 * 1024
\* The number of recent runs the README says a profile keeps (30), scaled down.
maxRecentRuns == 2

Reqs == 1..NumReqs
\* Strings are sequences of characters.  Normalised identities:
Emails == {<<"a">>, <<"b">>}
\* Identities as a request body can spell them.
RawEmails == Emails \cup {<<"A", " ">>}
\* Names the worker routes by, and a name that no identity normalises to.
Names == Emails
OtherNames == {<<"A">>}
NoReq == 0

\* ------------------------------------------------------------ timestamps
\* new Date(ms).toISOString() and new Date(iso).getTime()
toISOString(ms) == [iso |-> ms]
getTime(s) == s.iso

\* ---------------------------------------------------------------- strings
\* String.prototype.toLowerCase, one character
lowerChar(c) ==
    IF c = "A" THEN "a" ELSE IF c = "B" THEN "b"
    ELSE IF c = "S" THEN "s" ELSE IF c = "U" THEN "u"
    ELSE IF c = "E" THEN "e" ELSE IF c = "R" THEN "r" ELSE c

\* String.prototype.toLowerCase
toLowerCase(s) == [k \in 1..Len(s) |-> lowerChar(s[k])]

\* String.prototype.trim
RECURSIVE trim(_)
trim(s) ==
    IF s = <<>> THEN s
    ELSE IF Head(s) = " " THEN trim(Tail(s))
    ELSE IF s[Len(s)] = " " THEN trim(SubSeq(s, 1, Len(s) - 1))
    ELSE s

\* normaliseEmail
normaliseEmail(email) == toLowerCase(trim(email))

\* String.prototype.slice(0, n)
slice(s, n) == SubSeq(s, 1, IF Len(s) < n THEN Len(s) ELSE n)

\* Array.prototype.join(separator) on an array of strings
RECURSIVE joinWith(_, _)
joinWith(strs, separator) ==
    IF strs = <<>> THEN <<>>
    ELSE IF Len(strs) = 1 THEN strs[1]
    ELSE strs[1] \o <<separator>> \o joinWith(Tail(strs), separator)

join(strs) == joinWith(strs, "\n")

\* Array.prototype.flat on an array of arrays
RECURSIVE flat(_)
flat(seqs) == IF seqs = <<>> THEN <<>> ELSE Head(seqs) \o flat(Tail(seqs))

\* An optional property: undefined (absent), or a value.
undefined == <<>>
some(v) == <<v>>

\* ---------------------------------------------------------------- payloads
\* A message is [role, content, parts]: role a string, content an optional
\* string, parts an optional array of [text], text an optional string.
\* A raw body is [json, email, messages]: json says whether the text parses
\* as JSON, email is an optional string, messages an array of messages.

\* zod's email check: the well-formed addresses of the model are Emails.
isEmail(s) == s \in Emails

issue(path, message) == [path |-> path, message |-> message]

\* The segment of an issue's path for entry k of an array: arrays count from
\* 0, and the segment is kept as its text, which is what join(".") makes of it.
index(k) == ToString(k - 1)

\* Boolean(value) of an optional string and of an optional array's length
truthy(opt) == opt # undefined /\ opt[1] # <<>>

\* z.string().trim().toLowerCase().email("Valid email is required")
emailIssues(rawBody) ==
    IF rawBody.email = undefined THEN <<issue(<<"email">>, "Required")>>
    ELSE IF ~isEmail(toLowerCase(trim(rawBody.email[1])))
        THEN <<issue(<<"email">>, "Valid email is required")>>
    ELSE <<>>

\* chatMessageSchema (worker), entry k of messages
chatMessageIssues(m, k) ==
    LET role == IF Len(m.role) < 1
                    THEN <<issue(<<"messages", index(k), "role">>, "role is required")>>
                    ELSE <<>>
        texts == IF m.parts = undefined THEN <<>>
                 ELSE flat([j \in 1..Len(m.parts[1]) |->
                          IF m.parts[1][j].text = undefined
                              THEN <<issue(<<"messages", index(k), "parts", index(j), "text">>, "Required")>>
                              ELSE <<>>])
        refine == IF texts = <<>> /\ ~(truthy(m.content) \/ truthy(m.parts))
                      THEN <<issue(<<"messages", index(k)>>, "Message must include content or parts")>>
                      ELSE <<>>
    IN  role \o texts \o refine

\* The transform of chatPayloadSchema: every text is cut to maxTextLength.
truncateMessage(m) ==
    [role |-> m.role,
     content |-> IF m.content = undefined THEN undefined
                 ELSE some(slice(m.content[1], maxTextLength)),
     parts |-> IF m.parts = undefined THEN undefined
               ELSE some([j \in 1..Len(m.parts[1]) |->
                            [text |-> IF m.parts[1][j].text = undefined THEN undefined
                                      ELSE some(slice(m.parts[1][j].text[1], maxTextLength))]])]

\* A mutant: messages over the cap are cut off instead of refused.
chatPayloadSchemaTruncating(rawBody) ==
    LET messages == slice(rawBody.messages, chatMaxMessages)
        count == IF Len(messages) = 0
                     THEN <<issue(<<"messages">>, "messages must include at least one item")>>
                     ELSE <<>>
        issues == emailIssues(rawBody) \o count
                  \o flat([k \in 1..Len(messages) |-> chatMessageIssues(messages[k], k)])
    IN  [success |-> issues = <<>>,
         issues |-> issues,
         data |-> IF issues # <<>> THEN undefined
                  ELSE some([email |-> toLowerCase(trim(rawBody.email[1])),
                             messages |-> [k \in 1..Len(messages) |->
                                              truncateMessage(messages[k])]])]

\* chatPayloadSchema.safeParse(rawBody) (worker)
chatPayloadSchema(rawBody) ==
    LET count == IF Len(rawBody.messages) = 0
                     THEN <<issue(<<"messages">>, "messages must include at least one item")>>
                 ELSE IF Len(rawBody.messages) > chatMaxMessages
                     THEN <<issue(<<"messages">>, "messages must not exceed 40 entries")>>
                 ELSE <<>>
        issues == emailIssues(rawBody) \o count
                  \o flat([k \in 1..Len(rawBody.messages) |->
                              chatMessageIssues(rawBody.messages[k], k)])
    IN  [success |-> issues = <<>>,
         issues |-> issues,
         data |-> IF issues # <<>> THEN undefined
                  ELSE some([email |-> toLowerCase(trim(rawBody.email[1])),
                             messages |-> [k \in 1..Len(rawBody.messages) |->
                                              truncateMessage(rawBody.messages[k])]])]

\* agentMessageSchema (actor), entry k of messages
agentMessageIssues(m, k) ==
    IF Len(m.role) < 1
        THEN <<issue(<<"messages", index(k), "role">>, "String must contain at least 1 character(s)")>>
        ELSE <<>>

\* agentPayloadSchema.safeParse(rawBody) (actor)
agentPayloadSchema(rawBody) ==
    LET count == IF Len(rawBody.messages) = 0
                     THEN <<issue(<<"messages">>, "messages must not be empty")>>
                 ELSE IF Len(rawBody.messages) > agentMaxMessages
                     THEN <<issue(<<"messages">>, "messages must not exceed 50 entries")>>
                 ELSE <<>>
        issues == emailIssues(rawBody) \o count
                  \o flat([k \in 1..Len(rawBody.messages) |->
                              agentMessageIssues(rawBody.messages[k], k)])
    IN  [success |-> issues = <<>>,
         issues |-> issues,
         data |-> IF issues # <<>> THEN undefined
                  ELSE some([email |-> toLowerCase(trim(rawBody.email[1])),
                             messages |-> rawBody.messages])]

\* ------------------------------------------------------------ MessageBuilder
system == <<"s", "y", "s", "t", "e", "m">>
user == <<"u", "s", "e", "r">>
assistant == <<"a", "s", "s", "i", "s", "t", "a", "n", "t">>

\* normaliseRole
normaliseRole(role) ==
    IF role = <<>> THEN undefined
    ELSE IF toLowerCase(role) \in {system, user, assistant} THEN some(toLowerCase(role))
    ELSE undefined

defined(opt) == opt # undefined

\* A mutant: a content that is not blank is returned as it came.
extractContentVerbatim(message) ==
    IF truthy(message.content) /\ trim(message.content[1]) # <<>>
        THEN some(message.content[1])
    ELSE LET texts == IF message.parts = undefined THEN <<>>
                      ELSE [j \in 1..Len(message.parts[1]) |->
                               IF message.parts[1][j].text = undefined THEN undefined
                               ELSE some(trim(message.parts[1][j].text[1]))]
             parts == SelectSeq(texts, truthy)
         IN  IF Len(parts) > 0
                 THEN some(join([j \in 1..Len(parts) |-> parts[j][1]]))
                 ELSE undefined

\* extractContent
extractContent(message) ==
    IF truthy(message.content) /\ trim(message.content[1]) # <<>>
        THEN some(trim(message.content[1]))
    ELSE LET texts == IF message.parts = undefined THEN <<>>
                      ELSE [j \in 1..Len(message.parts[1]) |->
                               IF message.parts[1][j].text = undefined THEN undefined
                               ELSE some(trim(message.parts[1][j].text[1]))]
             parts == SelectSeq(texts, truthy)
         IN  IF Len(parts) > 0
                 THEN some(join([j \in 1..Len(parts) |-> parts[j][1]]))
                 ELSE undefined

\* A mutant: a message without content is passed on with empty content.
normaliseMessageKeepEmpty(message) ==
    IF normaliseRole(message.role) = undefined THEN undefined
    ELSE some([role |-> normaliseRole(message.role)[1],
               content |-> IF extractContent(message) = undefined THEN <<>>
                           ELSE extractContent(message)[1]])

\* MessageBuilder.normaliseMessage
normaliseMessage(message) ==
    IF normaliseRole(message.role) = undefined THEN undefined
    ELSE IF ~truthy(extractContent(message)) THEN undefined
    ELSE some([role |-> normaliseRole(message.role)[1],
               content |-> extractContent(message)[1]])

\* The base prompt, RUN_BUDDY_SYSTEM_PROMPT, as one token.
basePrompt == <<"You are RunBuddy, a dedicated running coach.">>

\* Boolean(value) of an optional number: 0 is falsy.
truthyNumber(opt) == opt # undefined /\ opt[1] # 0

\* One line of summariseProfile: the label and the field when the field is
\* truthy, no line otherwise (the undefined entries are filtered out).
summaryLine(label, opt) == IF truthy(opt) THEN <<<<label>> \o opt[1]>> ELSE <<>>

\* `Most recent run: ${dateISO} ${distance} ${duration}`.trim()
lastRunLine(lastRun) ==
    trim(<<"Most recent run: ">> \o lastRun.dateISO \o <<" ">>
         \o (IF truthyNumber(lastRun.distanceKm)
                 THEN <<"- ", ToString(lastRun.distanceKm[1]), "km">> ELSE <<>>)
         \o <<" ">>
         \o (IF truthyNumber(lastRun.durationMinutes)
                 THEN <<"in ", ToString(lastRun.durationMinutes[1]), " minutes">> ELSE <<>>))

\* A mutant: a plan with neither title nor focus is given no name.
lastPlanLineNoPlaceholder(lastPlan) ==
    <<"Latest plan: ">>
    \o (IF lastPlan.title # undefined THEN lastPlan.title[1]
        ELSE IF lastPlan.focus # undefined THEN lastPlan.focus[1]
        ELSE <<>>)
    \o <<" (">> \o lastPlan.createdAt \o <<")">>

\* A mutant: the focus is preferred to the title.
lastPlanLineFocusFirst(lastPlan) ==
    <<"Latest plan: ">>
    \o (IF lastPlan.focus # undefined THEN lastPlan.focus[1]
        ELSE IF lastPlan.title # undefined THEN lastPlan.title[1]
        ELSE <<"Untitled">>)
    \o <<" (">> \o lastPlan.createdAt \o <<")">>

\* `Latest plan: ${title ?? focus ?? "Untitled"} (${createdAt})`
lastPlanLine(lastPlan) ==
    <<"Latest plan: ">>
    \o (IF lastPlan.title # undefined THEN lastPlan.title[1]
        ELSE IF lastPlan.focus # undefined THEN lastPlan.focus[1]
        ELSE <<"Untitled">>)
    \o <<" (">> \o lastPlan.createdAt \o <<")">>

\* summariseProfile: the lines of the fields that are set, the counts, the
\* last run and the last plan, joined with newlines.  A run is
\* [dateISO, distanceKm, durationMinutes] and a plan [createdAt, title,
\* focus]: the fields the summary reads.
summariseProfile(profile) ==
    join(<<<<"Email: ">> \o profile.email>>
         \o summaryLine("Name: ", profile.firstName)
         \o summaryLine("Experience: ", profile.experienceLevel)
         \o summaryLine("Goal: ", profile.primaryGoal)
         \o summaryLine("Availability: ", profile.weeklyAvailability)
         \o summaryLine("Upcoming Event: ", profile.upcomingEvent)
         \o summaryLine("Notes: ", profile.notes)
         \o summaryLine("Feedback: ", profile.planFeedback)
         \o (IF Len(profile.recentRuns) > 0
                 THEN <<<<"Recent runs logged: ", ToString(Len(profile.recentRuns))>>>>
                 ELSE <<>>)
         \o (IF Len(profile.savedPlans) > 0
                 THEN <<<<"Saved training plans: ", ToString(Len(profile.savedPlans))>>>>
                 ELSE <<>>)
         \o (IF Len(profile.recentRuns) > 0
                 THEN <<lastRunLine(profile.recentRuns[Len(profile.recentRuns)])>>
                 ELSE <<>>)
         \o (IF Len(profile.savedPlans) > 0
                 THEN <<lastPlanLine(profile.savedPlans[Len(profile.savedPlans)])>>
                 ELSE <<>>))

\* MessageBuilder.composeSystemPrompt
composeSystemPrompt(profile) ==
    IF profile = undefined THEN [role |-> system, content |-> basePrompt]
    ELSE [role |-> system,
          content |-> basePrompt \o <<"\n\nActive runner profile:\n">>
                      \o summariseProfile(profile[1])]

\* A mutant: the messages are passed on last first.
buildReversed(messages, profile) ==
    LET normalised == SelectSeq([k \in 1..Len(messages) |->
                                    normaliseMessage(messages[Len(messages) + 1 - k])],
                                defined)
    IN  <<composeSystemPrompt(profile)>> \o [k \in 1..Len(normalised) |-> normalised[k][1]]

\* MessageBuilder.build
build(messages, profile) ==
    LET normalised == SelectSeq([k \in 1..Len(messages) |-> normaliseMessage(messages[k])],
                                defined)
    IN  <<composeSystemPrompt(profile)>> \o [k \in 1..Len(normalised) |-> normalised[k][1]]

\* --------------------------------------------------------------- routing
\* A mutant: one process-wide instance for every name.
idFromNameShared(name) == [name |-> <<"*">>]
\* env.RunBuddyAgent.idFromName(email): the instance is a function of the name.
idFromName(name) == [name |-> name]

Instances == {idFromName(n) : n \in Names \cup OtherNames}

\* ----------------------------------------------------------------- state
VARIABLES
    clock,     \* Date.now()
    stored,    \* instance -> <<>> (nothing under "state") or <<RunBuddyState>>
    gate,      \* instance -> [holder, queue]: the blockConcurrencyWhile gate
    pc,        \* request -> where its handler is
    req,       \* request -> what the actor was sent and what it parsed:
               \* [name, kind, body, email, messages]
    snap,      \* request -> the local `state` a getState() returned, <<>> if none
    resp,      \* request -> status of the response, 0 while there is none
    usage0,    \* history: request in flight -> its identity's persisted usage
               \* entry when its payload was parsed
    reply,     \* request -> <<>> or <<[type, body]>>: the response the caller got
    aiCalls,   \* request -> <<>> or <<messages>>: what ai.run was called with
    input      \* history: request -> <<>> or <<the request POSTed to /chat>>

vars == <<clock, stored, gate, pc, req, snap, resp, usage0, reply, aiCalls, input>>

NoBody == [json |-> FALSE, email |-> undefined, messages |-> <<>>]
NoRequest == [name |-> <<>>, kind |-> "", body |-> NoBody, email |-> <<>>, messages |-> <<>>]
inst(r) == idFromName(req[r].name)

\* DEFAULT_STATE
DEFAULT_STATE ==
    [activeEmail |-> <<>>,
     profiles |-> [e \in Emails |-> <<>>],
     usage |-> [e \in Emails |-> <<>>]]

\* ProfileRepository.getState, given what storage.get("state") returned
getState(got) == IF got = <<>> THEN DEFAULT_STATE ELSE got[1]

\* ProfileRepository.createEmptyProfile
createEmptyProfile(email, now) ==
    [email |-> email,
     createdAt |-> toISOString(now),
     updatedAt |-> toISOString(now),
     firstName |-> undefined,
     experienceLevel |-> undefined,
     primaryGoal |-> undefined,
     weeklyAvailability |-> undefined,
     upcomingEvent |-> undefined,
     notes |-> undefined,
     planFeedback |-> undefined,
     recentRuns |-> <<>>,
     savedPlans |-> <<>>]

\* ProfileRepository.withUsageEntry
withUsageEntry(existingUsage, email, now) ==
    IF existingUsage[email] = <<>>
        THEN [existingUsage EXCEPT ![email] =
                 <<[count |-> 0, windowStart |-> toISOString(now)]>>]
        ELSE existingUsage

Init ==
    /\ clock = 0
    /\ stored = [i \in Instances |-> <<>>]
    /\ gate = [i \in Instances |-> [holder |-> NoReq, queue |-> <<>>]]
    /\ pc = [r \in Reqs |-> "new"]
    /\ req = [r \in Reqs |-> NoRequest]
    /\ snap = [r \in Reqs |-> <<>>]
    /\ resp = [r \in Reqs |-> 0]
    /\ usage0 = [r \in Reqs |-> <<>>]
    /\ reply = [r \in Reqs |-> <<>>]
    /\ aiCalls = [r \in Reqs |-> <<>>]
    /\ input = [r \in Reqs |-> <<>>]

\* -------------------------------------------------------------- responses
\* new Response(body, { status, headers }): the Content-Type header ("" when
\* none is set) and the body: JSON with an error string and optional
\* issues, a text, or a stream.
Response(status, type, body) == [status |-> status, type |-> type, body |-> body]
jsonBody(error, issues) == [kind |-> "json", error |-> error, issues |-> issues, text |-> <<>>]
textBody(text) == [kind |-> "text", error |-> "", issues |-> undefined, text |-> text]
streamBody == [kind |-> "stream", error |-> "", issues |-> undefined, text |-> <<>>]

\* new DurableObjectHttpError(status, message, issues) and new HttpError(...)
HttpError(status, message, issues) ==
    [http |-> TRUE, status |-> status, message |-> message, issues |-> issues]

\* What a storage operation, ai.run or stub.fetch can reject with.
InternalErrors ==
    {[http |-> FALSE, status |-> 0, message |-> m, issues |-> undefined] :
        m \in {"storage operation failed", "AI binding: account 42 over quota"}}

\* A mutant: the message of any error is sent to the caller (as the first
\* version of the actor did).
handleErrorLeak(error) ==
    Response(IF error.http THEN error.status ELSE 500, "application/json",
             jsonBody(error.message,
                      IF error.http
                          THEN some(IF error.issues = undefined THEN <<>> ELSE error.issues[1])
                          ELSE undefined))

\* A mutant: every error is answered as an unexpected one.
handleErrorAll500(error) ==
    Response(500, "application/json", jsonBody("Internal error", undefined))

\* RunBuddyAgent.handleError
handleError(error) ==
    IF error.http
        THEN Response(error.status, "application/json",
                      jsonBody(error.message,
                               some(IF error.issues = undefined THEN <<>>
                                    ELSE [k \in 1..Len(error.issues[1]) |->
                                             [path |-> error.issues[1][k].path,
                                              message |-> error.issues[1][k].message]])))
        ELSE Response(500, "application/json", jsonBody("Internal error", undefined))

\* ------------------------------------------------------------- the gate
\* The first await of a handler that has entered the section.
FirstStep(kind) == IF kind = "chat" THEN "parse" ELSE "upsert_get"

\* The handler of r is over: its locals are gone.
Forget(r) ==
    /\ req' = [req EXCEPT ![r] = [NoRequest EXCEPT !.name = req[r].name, !.kind = req[r].kind]]
    /\ snap' = [snap EXCEPT ![r] = <<>>]
    /\ usage0' = [usage0 EXCEPT ![r] = <<>>]

\* A mutant: the section is let go only when the handler returned a stream.
RespondLeak(r, response) ==
    LET i == inst(r) IN
    /\ resp' = [resp EXCEPT ![r] = response.status]
    /\ reply' = [reply EXCEPT ![r] = <<[type |-> response.type, body |-> response.body]>>]
    /\ Forget(r)
    /\ IF gate[i].holder = r /\ response.status = 200 /\ gate[i].queue # <<>>
          THEN /\ gate' = [gate EXCEPT ![i] = [holder |-> Head(@.queue), queue |-> Tail(@.queue)]]
               /\ pc' = [pc EXCEPT ![r] = "done",
                                   ![Head(gate[i].queue)] = FirstStep(req[Head(gate[i].queue)].kind)]
          ELSE /\ gate' = [gate EXCEPT ![i].holder = IF @ = r /\ response.status = 200 THEN NoReq ELSE @]
               /\ pc' = [pc EXCEPT ![r] = "done"]

\* The callback given to blockConcurrencyWhile returns a response (from
\* handleChat or from handleError): the response goes to the caller, the
\* section ends, and the next queued callback, if any, starts.
Respond(r, response) ==
    LET i == inst(r) IN
    /\ resp' = [resp EXCEPT ![r] = response.status]
    /\ reply' = [reply EXCEPT ![r] = <<[type |-> response.type, body |-> response.body]>>]
    /\ Forget(r)
    /\ IF gate[i].holder = r /\ gate[i].queue # <<>>
          THEN /\ gate' = [gate EXCEPT ![i] = [holder |-> Head(@.queue), queue |-> Tail(@.queue)]]
               /\ pc' = [pc EXCEPT ![r] = "done",
                                   ![Head(gate[i].queue)] = FirstStep(req[Head(gate[i].queue)].kind)]
          ELSE /\ gate' = [gate EXCEPT ![i].holder = IF @ = r THEN NoReq ELSE @]
               /\ pc' = [pc EXCEPT ![r] = "done"]

\* blockConcurrencyWhile(callback): the callback starts at once when no
\* other is running, and waits its turn, first come first served, otherwise.
blockConcurrencyWhile(r, i, kind) ==
    IF gate[i].holder = NoReq
        THEN /\ gate' = [gate EXCEPT ![i].holder = r]
             /\ pc' = [pc EXCEPT ![r] = FirstStep(kind)]
        ELSE /\ gate' = [gate EXCEPT ![i].queue = Append(@, r)]
             /\ pc' = [pc EXCEPT ![r] = "queued"]

\* Requests are numbered in the order they are delivered.
NextDelivered(r) == pc[r] = "new" /\ \A q \in Reqs : q < r => pc[q] # "new"

\* ------------------------------------------------------ bodies delivered
hello == [role |-> user, content |-> some(<<"h", "i">>), parts |-> undefined]

\* What a body sent to the actor can be: not JSON, JSON the schema refuses,
\* or a payload with an identity in one of its spellings.
Bodies ==
    {[json |-> FALSE, email |-> undefined, messages |-> <<>>],
     [json |-> TRUE, email |-> undefined, messages |-> <<>>]}
    \cup {[json |-> TRUE, email |-> some(e), messages |-> <<hello>>] : e \in RawEmails}

\* What is delivered to which instance: an instance is sent the payloads of
\* its own identity, whatever their spelling, and the bodies that carry none.
Deliveries ==
    {d \in [name : Names, body : Bodies] :
        d.body.email # undefined => normaliseEmail(d.body.email[1]) = d.name}

\* ---------------------------------------------------- RunBuddyAgent.fetch
\* A mutant: the handler runs without the section (as the first version did).
fetchUnguarded(r, name, body) ==
    /\ req' = [req EXCEPT ![r] = [NoRequest EXCEPT !.name = name, !.kind = "chat", !.body = body]]
    /\ pc' = [pc EXCEPT ![r] = "parse"]
    /\ UNCHANGED gate

\* fetch: a POST to /use-chat runs handleChat inside blockConcurrencyWhile.
fetch(r, name, body) ==
    /\ req' = [req EXCEPT ![r] = [NoRequest EXCEPT !.name = name, !.kind = "chat", !.body = body]]
    /\ blockConcurrencyWhile(r, idFromName(name), "chat")

\* A request reaches the actor of a name without passing the worker's /chat.
routeAgentRequest(r, deliveries) ==
    /\ NextDelivered(r)
    /\ \E d \in deliveries : fetch(r, d.name, d.body)
    /\ UNCHANGED <<clock, stored, snap, resp, usage0, reply, aiCalls, input>>

\* ----------------------------------------------------- parseAgentPayload
\* agentPayloadSchema on the email field: trim, toLowerCase.
schemaEmail(raw) == toLowerCase(trim(raw))

\* A mutant: a refused payload clears the active pointer in storage.
parseAgentPayloadClearing(r) ==
    /\ pc[r] = "parse"
    /\ IF ~req[r].body.json \/ ~agentPayloadSchema(req[r].body).success
          THEN /\ Respond(r, handleError(HttpError(400, "Invalid chat payload", undefined)))
               /\ stored' = [stored EXCEPT ![inst(r)] =
                                <<[getState(@) EXCEPT !.activeEmail = undefined]>>]
               /\ UNCHANGED <<aiCalls, input>>
          ELSE LET data == agentPayloadSchema(req[r].body).data[1] IN
               /\ req' = [req EXCEPT ![r].email = data.email, ![r].messages = data.messages]
               /\ usage0' = [usage0 EXCEPT ![r] = getState(stored[inst(r)]).usage[data.email]]
               /\ pc' = [pc EXCEPT ![r] = "ensure_get"]
               /\ UNCHANGED <<gate, snap, resp, reply, aiCalls, input, stored>>
    /\ UNCHANGED clock

\* await request.json() throws (400), safeParse fails (400), or the payload
\* is returned and handleChat goes on to ensureActiveEmail.
parseAgentPayload(r) ==
    /\ pc[r] = "parse"
    /\ IF ~req[r].body.json
          THEN /\ Respond(r, handleError(HttpError(400,
                      "Invalid JSON body received by RunBuddy Durable Object", undefined)))
               /\ UNCHANGED <<aiCalls, input>>
       ELSE IF ~agentPayloadSchema(req[r].body).success
          THEN /\ Respond(r, handleError(HttpError(400, "Invalid chat payload",
                                                   some(agentPayloadSchema(req[r].body).issues))))
               /\ UNCHANGED <<aiCalls, input>>
       ELSE LET data == agentPayloadSchema(req[r].body).data[1] IN
               /\ req' = [req EXCEPT ![r].email = data.email, ![r].messages = data.messages]
               /\ usage0' = [usage0 EXCEPT ![r] = getState(stored[inst(r)]).usage[data.email]]
               /\ pc' = [pc EXCEPT ![r] = "ensure_get"]
               /\ UNCHANGED <<gate, snap, resp, reply, aiCalls, input>>
    /\ UNCHANGED <<clock, stored>>

\* A mutant: only the profile of the active identity is kept.
ensureActiveEmailStateOnlyActive(state, email, now) ==
    LET normalisedEmail == normaliseEmail(email)
        profile == IF state.profiles[normalisedEmail] # <<>>
                       THEN state.profiles[normalisedEmail]
                       ELSE <<createEmptyProfile(normalisedEmail, now)>>
    IN  [activeEmail |-> normalisedEmail,
         profiles |-> [DEFAULT_STATE.profiles EXCEPT ![normalisedEmail] = profile],
         usage |-> withUsageEntry(state.usage, normalisedEmail, now)]

\* A mutant: the profile is made anew whenever the active identity changes.
ensureActiveEmailStateFresh(state, email, now) ==
    LET normalisedEmail == normaliseEmail(email)
    IN  [activeEmail |-> normalisedEmail,
         profiles |-> [state.profiles EXCEPT ![normalisedEmail] =
                          <<createEmptyProfile(normalisedEmail, now)>>],
         usage |-> withUsageEntry(state.usage, normalisedEmail, now)]

\* A mutant: the active pointer is moved and no profile is made.
ensureActiveEmailStatePointerOnly(state, email, now) ==
    [activeEmail |-> normaliseEmail(email),
     profiles |-> state.profiles,
     usage |-> withUsageEntry(state.usage, normaliseEmail(email), now)]

\* ------------------------------------------------------ ensureActiveEmail
\* nextState of ensureActiveEmail
ensureActiveEmailState(state, email, now) ==
    LET normalisedEmail == normaliseEmail(email)
        profile == IF state.profiles[normalisedEmail] # <<>>
                       THEN state.profiles[normalisedEmail]
                       ELSE <<createEmptyProfile(normalisedEmail, now)>>
    IN  [activeEmail |-> normalisedEmail,
         profiles |-> [state.profiles EXCEPT ![normalisedEmail] = profile],
         usage |-> withUsageEntry(state.usage, normalisedEmail, now)]

\* A mutant: a read that finds nothing stored stores the default state.
ensureActiveEmail_getStateCreating(r) ==
    /\ pc[r] = "ensure_get"
    /\ snap' = [snap EXCEPT ![r] = <<getState(stored[inst(r)])>>]
    /\ stored' = [stored EXCEPT ![inst(r)] = <<getState(@)>>]
    /\ pc' = [pc EXCEPT ![r] = "ensure_set"]
    /\ UNCHANGED <<clock, gate, req, resp, usage0, reply, aiCalls, input>>

\* const state = await this.getState()
ensureActiveEmail_getState(r) ==
    /\ pc[r] = "ensure_get"
    /\ snap' = [snap EXCEPT ![r] = <<getState(stored[inst(r)])>>]
    /\ pc' = [pc EXCEPT ![r] = "ensure_set"]
    /\ UNCHANGED <<clock, stored, gate, req, resp, usage0, reply, aiCalls, input>>

\* the early return, or await this.setState(nextState)
ensureActiveEmail_setState(r) ==
    /\ pc[r] = "ensure_set"
    /\ stored' = IF snap[r][1].activeEmail = normaliseEmail(req[r].email)
                     THEN stored
                     ELSE [stored EXCEPT ![inst(r)] =
                              <<ensureActiveEmailState(snap[r][1], req[r].email, clock)>>]
    /\ snap' = [snap EXCEPT ![r] = <<>>]
    /\ pc' = [pc EXCEPT ![r] = "limit_get"]
    /\ UNCHANGED <<clock, gate, req, resp, usage0, reply, aiCalls, input>>

\* --------------------------------------------------- assertWithinRateLimit
\* usage[normalisedEmail] after withUsageEntry (lines 283-285)
usageEntry(state, email, now) ==
    withUsageEntry(state.usage, normaliseEmail(email), now)[normaliseEmail(email)][1]

\* A mutant: the window is reset only after more than windowMs.
windowExpiredStrict(entry, windowMs, now) ==
    now - getTime(entry.windowStart) > windowMs

\* now - windowStart >= windowMs
windowExpired(entry, windowMs, now) ==
    now - getTime(entry.windowStart) >= windowMs

\* The entry after the window check (lines 287-290).
windowEntry(state, email, windowMs, now) ==
    IF windowExpired(usageEntry(state, email, now), windowMs, now)
        THEN [count |-> 0, windowStart |-> toISOString(now)]
        ELSE usageEntry(state, email, now)

\* A mutant: the ceiling is compared with > instead of >=.
rateLimitedOffByOne(state, email, limit, windowMs, now) ==
    windowEntry(state, email, windowMs, now).count > limit

\* if (entry.count >= limit) throw 429
rateLimited(state, email, limit, windowMs, now) ==
    windowEntry(state, email, windowMs, now).count >= limit

\* A mutant: the usage written holds the window of the request's identity only.
assertWithinRateLimitStateOwnOnly(state, email, limit, windowMs, now) ==
    [activeEmail |-> state.activeEmail,
     profiles |-> state.profiles,
     usage |-> [DEFAULT_STATE.usage EXCEPT ![normaliseEmail(email)] =
                   <<[windowEntry(state, email, windowMs, now) EXCEPT !.count = @ + 1]>>]]

\* nextState of assertWithinRateLimit when the request is admitted
assertWithinRateLimitState(state, email, limit, windowMs, now) ==
    [activeEmail |-> state.activeEmail,
     profiles |-> state.profiles,
     usage |-> [state.usage EXCEPT ![normaliseEmail(email)] =
                   <<[windowEntry(state, email, windowMs, now) EXCEPT !.count = @ + 1]>>]]

\* The error assertWithinRateLimit throws at the ceiling.
rateLimitError ==
    HttpError(429, "Daily request limit reached",
              some(<<issue(<<"messages">>, "Rate limit exceeded")>>))

\* const state = await this.getState()
assertWithinRateLimit_getState(r) ==
    /\ pc[r] = "limit_get"
    /\ snap' = [snap EXCEPT ![r] = <<getState(stored[inst(r)])>>]
    /\ pc' = [pc EXCEPT ![r] = "limit_set"]
    /\ UNCHANGED <<clock, stored, gate, req, resp, usage0, reply, aiCalls, input>>

\* A mutant: the window and the count are persisted before the ceiling is checked.
assertWithinRateLimit_checkChargeFirst(r) ==
    /\ pc[r] = "limit_set"
    /\ stored' = [stored EXCEPT ![inst(r)] =
                     <<assertWithinRateLimitState(snap[r][1], req[r].email, Limit, WindowMs, clock)>>]
    /\ IF rateLimited(snap[r][1], req[r].email, Limit, WindowMs, clock)
          THEN Respond(r, handleError(rateLimitError))
          ELSE /\ snap' = [snap EXCEPT ![r] = <<>>]
               /\ pc' = [pc EXCEPT ![r] = "context_get"]
               /\ UNCHANGED <<gate, req, resp, usage0, reply>>
    /\ UNCHANGED <<clock, aiCalls, input>>

\* A mutant: the call is not awaited, so its rejection stops nothing.
assertWithinRateLimit_checkNotAwaited(r) ==
    /\ pc[r] = "limit_set"
    /\ stored' = IF rateLimited(snap[r][1], req[r].email, Limit, WindowMs, clock)
                     THEN stored
                     ELSE [stored EXCEPT ![inst(r)] =
                              <<assertWithinRateLimitState(snap[r][1], req[r].email, Limit, WindowMs, clock)>>]
    /\ snap' = [snap EXCEPT ![r] = <<>>]
    /\ pc' = [pc EXCEPT ![r] = "context_get"]
    /\ UNCHANGED <<clock, gate, req, resp, usage0, reply, aiCalls, input>>

\* The window check, then the throw of 429 (caught by fetch, answered by
\* handleError) or the increment and await this.setState(nextState).
assertWithinRateLimit_check(r) ==
    /\ pc[r] = "limit_set"
    /\ IF rateLimited(snap[r][1], req[r].email, Limit, WindowMs, clock)
          THEN /\ Respond(r, handleError(rateLimitError))
               /\ UNCHANGED stored
          ELSE /\ stored' = [stored EXCEPT ![inst(r)] =
                     <<assertWithinRateLimitState(snap[r][1], req[r].email, Limit, WindowMs, clock)>>]
               /\ snap' = [snap EXCEPT ![r] = <<>>]
               /\ pc' = [pc EXCEPT ![r] = "context_get"]
               /\ UNCHANGED <<gate, req, resp, usage0, reply>>
    /\ UNCHANGED <<clock, aiCalls, input>>

\* ------------------------------------------- getContext, build, streamChat
\* The activeProfile getContext returns, undefined when there is none.
activeProfile(state) ==
    IF state.activeEmail = <<>> THEN undefined ELSE state.profiles[state.activeEmail]

\* A mutant: the system entry is stamped with the time of the call.
getContextStamped(r) ==
    /\ pc[r] = "context_get"
    /\ aiCalls' = [aiCalls EXCEPT ![r] =
                      some([build(req[r].messages, activeProfile(getState(stored[inst(r)])))
                               EXCEPT ![1].content = @ \o <<"\n", ToString(clock)>>])]
    /\ pc' = [pc EXCEPT ![r] = "ai"]
    /\ UNCHANGED <<clock, stored, gate, req, snap, resp, usage0, reply, input>>

\* getContext reads the state; build is synchronous; streamChat calls
\* ai.run with the messages built and awaits the stream.
getContext(r) ==
    /\ pc[r] = "context_get"
    /\ aiCalls' = [aiCalls EXCEPT ![r] =
                      some(build(req[r].messages, activeProfile(getState(stored[inst(r)]))))]
    /\ pc' = [pc EXCEPT ![r] = "ai"]
    /\ UNCHANGED <<clock, stored, gate, req, snap, resp, usage0, reply, input>>

\* A mutant: a request whose inference call fails is taken off the count.
streamChatRefunding(r) ==
    /\ pc[r] = "ai"
    /\ \/ /\ Respond(r, Response(200, "text/event-stream", streamBody))
          /\ UNCHANGED stored
       \/ /\ \E error \in InternalErrors : Respond(r, handleError(error))
          /\ stored' = [stored EXCEPT ![inst(r)] =
                           <<[getState(@) EXCEPT !.usage[req[r].email] =
                                  <<[@[1] EXCEPT !.count = @ - 1]>>]>>]
    /\ UNCHANGED <<clock, aiCalls, input>>

\* ai.run resolves with the stream (200) or rejects (handleError: 500).
streamChat(r) ==
    /\ pc[r] = "ai"
    /\ \/ Respond(r, Response(200, "text/event-stream", streamBody))
       \/ \E error \in InternalErrors : Respond(r, handleError(error))
    /\ UNCHANGED <<clock, stored, aiCalls, input>>

\* A storage.get or storage.put rejects: handleError answers 500.
storageFailure(r) ==
    /\ \/ pc[r] \in {"ensure_get", "limit_get", "context_get"}
       \/ /\ pc[r] = "ensure_set"
          /\ snap[r][1].activeEmail # normaliseEmail(req[r].email)
       \/ /\ pc[r] = "limit_set"
          /\ ~rateLimited(snap[r][1], req[r].email, Limit, WindowMs, clock)
    /\ \E error \in InternalErrors : Respond(r, handleError(error))
    /\ UNCHANGED <<clock, stored, aiCalls, input>>

\* ----------------------------------------------------------- upsertProfile
\* A mutator that appends one activity-log entry.
appendRun(profile, entry) == [profile EXCEPT !.recentRuns = Append(@, entry)]

\* nextState of upsertProfile, the mutator being appendRun with this entry
upsertProfileState(state, email, entry, setActive, now) ==
    LET normalisedEmail == normaliseEmail(email)
        existing == state.profiles[normalisedEmail]
        updatedProfile == appendRun(IF existing # <<>> THEN existing[1]
                                    ELSE createEmptyProfile(normalisedEmail, now), entry)
    IN  [activeEmail |-> IF setActive THEN normalisedEmail ELSE state.activeEmail,
         profiles |-> [state.profiles EXCEPT ![normalisedEmail] =
                          <<[updatedProfile EXCEPT !.updatedAt = toISOString(now)]>>],
         usage |-> withUsageEntry(state.usage, normalisedEmail, now)]

\* What the caller of upsertProfile gets back.
returned(nextState, email) ==
    Response(200, "", [kind |-> "profile", error |-> "", issues |-> undefined, text |-> <<>>,
                       profile |-> nextState.profiles[normaliseEmail(email)][1]])

\* An operation that calls upsertProfile(email, appendRun) on the instance
\* of its identity, inside the section.
upsertOp(r) ==
    /\ NextDelivered(r)
    /\ \E n \in Names :
          /\ req' = [req EXCEPT ![r] = [NoRequest EXCEPT !.name = n, !.kind = "upsert", !.email = n]]
          /\ blockConcurrencyWhile(r, idFromName(n), "upsert")
    /\ UNCHANGED <<clock, stored, snap, resp, usage0, reply, aiCalls, input>>

\* The operation on the actor named a, for any identity in any spelling.
upsertOpFor(r) ==
    /\ NextDelivered(r)
    /\ \E e \in RawEmails :
          /\ req' = [req EXCEPT ![r] = [NoRequest EXCEPT !.name = <<"a">>, !.kind = "upsert",
                                                        !.email = e]]
          /\ blockConcurrencyWhile(r, idFromName(<<"a">>), "upsert")
    /\ UNCHANGED <<clock, stored, snap, resp, usage0, reply, aiCalls, input>>

\* The same operation, called outside any section.
upsertOpUnguarded(r) ==
    /\ NextDelivered(r)
    /\ \E n \in Names :
          req' = [req EXCEPT ![r] = [NoRequest EXCEPT !.name = n, !.kind = "upsert", !.email = n]]
    /\ pc' = [pc EXCEPT ![r] = "upsert_get"]
    /\ UNCHANGED <<clock, stored, gate, snap, resp, usage0, reply, aiCalls, input>>

\* const state = await this.getState()
upsertProfile_getState(r) ==
    /\ pc[r] = "upsert_get"
    /\ snap' = [snap EXCEPT ![r] = <<getState(stored[inst(r)])>>]
    /\ pc' = [pc EXCEPT ![r] = "upsert_set"]
    /\ UNCHANGED <<clock, stored, gate, req, resp, usage0, reply, aiCalls, input>>

\* A mutant: the mutator is always given a fresh empty profile.
upsertProfile_setStateFromEmpty(r) ==
    /\ pc[r] = "upsert_set"
    /\ stored' = [stored EXCEPT ![inst(r)] =
                     <<upsertProfileState([snap[r][1] EXCEPT !.profiles = DEFAULT_STATE.profiles],
                                          req[r].email, r, TRUE, clock)>>]
    /\ Respond(r, returned(upsertProfileState([snap[r][1] EXCEPT !.profiles = DEFAULT_STATE.profiles],
                                       req[r].email, r, TRUE, clock), req[r].email))
    /\ UNCHANGED <<clock, aiCalls, input>>

\* A mutant: the state is read again when it is written.
upsertProfile_setStateReread(r) ==
    /\ pc[r] = "upsert_set"
    /\ stored' = [stored EXCEPT ![inst(r)] =
                     <<upsertProfileState(getState(stored[inst(r)]), req[r].email, r, TRUE, clock)>>]
    /\ Respond(r, returned(upsertProfileState(getState(stored[inst(r)]), req[r].email, r, TRUE, clock), req[r].email))
    /\ UNCHANGED <<clock, aiCalls, input>>

\* await this.setState(nextState); return nextState.profiles[normalisedEmail]
upsertProfile_setState(r) ==
    /\ pc[r] = "upsert_set"
    /\ stored' = [stored EXCEPT ![inst(r)] =
                     <<upsertProfileState(snap[r][1], req[r].email, r, TRUE, clock)>>]
    /\ Respond(r, returned(upsertProfileState(snap[r][1], req[r].email, r, TRUE, clock), req[r].email))
    /\ UNCHANGED <<clock, aiCalls, input>>

\* Time passes.
Tick ==
    /\ clock < MaxTime
    /\ clock' = clock + 1
    /\ UNCHANGED <<stored, gate, pc, req, snap, resp, usage0, reply, aiCalls, input>>

Next ==
    \/ Tick
    \/ \E r \in Reqs :
          \/ routeAgentRequest(r, Deliveries)
          \/ parseAgentPayload(r)
          \/ ensureActiveEmail_getState(r)
          \/ ensureActiveEmail_setState(r)
          \/ assertWithinRateLimit_getState(r)
          \/ assertWithinRateLimit_check(r)
          \/ getContext(r)
          \/ streamChat(r)
          \/ storageFailure(r)

Spec == Init /\ [][Next]_vars

\* A step of the handler of r after its delivery: the runtime resumes every
\* continuation whose awaited operation has settled.
Progress(r) ==
    \/ parseAgentPayload(r)
    \/ ensureActiveEmail_getState(r)
    \/ ensureActiveEmail_setState(r)
    \/ assertWithinRateLimit_getState(r)
    \/ assertWithinRateLimit_check(r)
    \/ getContext(r)
    \/ streamChat(r)

\* The deliveries of the runs in which every request is sent to one actor.
LiveDeliveries == {d \in Deliveries : d.name = <<"a">>}

LiveNext ==
    \/ Tick
    \/ \E r \in Reqs :
          \/ routeAgentRequest(r, LiveDeliveries)
          \/ parseAgentPayload(r)
          \/ ensureActiveEmail_getState(r)
          \/ ensureActiveEmail_setState(r)
          \/ assertWithinRateLimit_getState(r)
          \/ assertWithinRateLimit_check(r)
          \/ getContext(r)
          \/ streamChat(r)
          \/ storageFailure(r)

\* Every awaited operation settles and its continuation runs.
LiveSpec == Init /\ [][LiveNext]_vars /\ \A r \in Reqs : WF_vars(Progress(r))

\* Operations that append to the activity log, each inside the section.
UpsertNext ==
    \/ Tick
    \/ \E r \in Reqs :
          \/ upsertOp(r)
          \/ upsertProfile_getState(r)
          \/ upsertProfile_setState(r)

UpsertSpec == Init /\ [][UpsertNext]_vars

\* Operations for two identities on one actor.
UpsertForNext ==
    \/ Tick
    \/ \E r \in Reqs :
          \/ upsertOpFor(r)
          \/ upsertProfile_getState(r)
          \/ upsertProfile_setState(r)

UpsertForSpec == Init /\ [][UpsertForNext]_vars

\* The same operations with no section around them.
RawUpsertNext ==
    \/ Tick
    \/ \E r \in Reqs :
          \/ upsertOpUnguarded(r)
          \/ upsertProfile_getState(r)
          \/ upsertProfile_setState(r)

RawUpsertSpec == Init /\ [][RawUpsertNext]_vars

\* ------------------------------------------------- the worker: POST /chat
\* parseChatPayload: the size check, JSON.parse, then the schema.  The
\* result is the HttpError thrown or the payload returned.
parseChatPayloadParseFirst(request) ==
    IF ~request.json
        THEN [error |-> some(HttpError(400, "Invalid JSON body", undefined)), data |-> undefined]
    ELSE IF request.bytes > MAX_PAYLOAD_BYTES
        THEN [error |-> some(HttpError(413, "Payload too large", undefined)), data |-> undefined]
    ELSE IF ~chatPayloadSchema(request).success
        THEN [error |-> some(HttpError(400, "Invalid chat payload",
                                       some(chatPayloadSchema(request).issues))),
              data |-> undefined]
    ELSE [error |-> undefined, data |-> chatPayloadSchema(request).data]

parseChatPayload(request) ==
    IF request.bytes > MAX_PAYLOAD_BYTES
        THEN [error |-> some(HttpError(413, "Payload too large", undefined)), data |-> undefined]
    ELSE IF ~request.json
        THEN [error |-> some(HttpError(400, "Invalid JSON body", undefined)), data |-> undefined]
    ELSE IF ~chatPayloadSchema(request).success
        THEN [error |-> some(HttpError(400, "Invalid chat payload",
                                       some(chatPayloadSchema(request).issues))),
              data |-> undefined]
    ELSE [error |-> undefined, data |-> chatPayloadSchema(request).data]

\* issue.path.join(".")
pathText(path) == joinWith([k \in 1..Len(path) |-> <<path[k]>>], ".")

\* formatValidationIssues
formatValidationIssues(issues) ==
    IF issues = undefined THEN undefined
    ELSE some(joinWith([k \in 1..Len(issues[1]) |->
                           IF issues[1][k].path = <<>> THEN <<issues[1][k].message>>
                           ELSE pathText(issues[1][k].path) \o <<": ", issues[1][k].message>>],
                       "; "))

\* The catch block of handleChatRequest
chatError(error) ==
    IF error.http
        THEN Response(error.status, "text/plain",
                      textBody(IF formatValidationIssues(error.issues) # undefined
                                   THEN formatValidationIssues(error.issues)[1]
                                   ELSE <<error.message>>))
        ELSE Response(500, "", textBody(<<"Internal Server Error">>))

\* The worker answers by itself: nothing was sent to an actor.
chatRespond(r, response) ==
    /\ resp' = [resp EXCEPT ![r] = response.status]
    /\ reply' = [reply EXCEPT ![r] = <<[type |-> response.type, body |-> response.body]>>]
    /\ pc' = [pc EXCEPT ![r] = "done"]
    /\ UNCHANGED <<gate, req, snap, usage0>>

\* A mutant: the actor is chosen by the identity as the caller spelled it,
\* trimmed only.
forwardChatToDurableObjectRaw(r, request, email, messages) ==
    /\ fetch(r, trim(request.email[1]),
             [json |-> TRUE, email |-> some(email), messages |-> messages])
    /\ UNCHANGED <<snap, resp, usage0, reply>>

\* forwardChatToDurableObject: idFromName(email), then stub.fetch with the
\* body JSON.stringify({ email, messages }).
forwardChatToDurableObject(r, request, email, messages) ==
    /\ fetch(r, email, [json |-> TRUE, email |-> some(email), messages |-> messages])
    /\ UNCHANGED <<snap, resp, usage0, reply>>

\* handleChatRequest for one of these requests: the payload is parsed and
\* forwarded, and the actor's response is the caller's; an HttpError or a
\* failure of stub.fetch is answered by the catch block.
handleChatRequest(r, requests) ==
    /\ NextDelivered(r)
    /\ \E request \in requests :
          /\ input' = [input EXCEPT ![r] = some(request)]
          /\ IF parseChatPayload(request).error # undefined
                THEN chatRespond(r, chatError(parseChatPayload(request).error[1]))
                ELSE \/ forwardChatToDurableObject(r, request,
                                                   parseChatPayload(request).data[1].email,
                                                   parseChatPayload(request).data[1].messages)
                     \/ \E error \in InternalErrors : chatRespond(r, chatError(error))
    /\ UNCHANGED <<clock, stored, aiCalls>>

\* The requests to /chat of the interleaved runs: over the size cap, not
\* JSON, refused by the schema, and one accepted per spelling of an identity.
ChatRequests ==
    {[bytes |-> MAX_PAYLOAD_BYTES + 1, json |-> TRUE, email |-> some(<<"a">>), messages |-> <<hello>>],
     [bytes |-> 1024, json |-> FALSE, email |-> undefined, messages |-> <<>>],
     [bytes |-> 1024, json |-> TRUE, email |-> some(<<"?">>), messages |-> <<hello>>]}
    \cup {[bytes |-> 1024, json |-> TRUE, email |-> some(e), messages |-> <<hello>>] : e \in RawEmails}

ChatNext ==
    \/ Tick
    \/ \E r \in Reqs :
          \/ handleChatRequest(r, ChatRequests)
          \/ parseAgentPayload(r)
          \/ ensureActiveEmail_getState(r)
          \/ ensureActiveEmail_setState(r)
          \/ assertWithinRateLimit_getState(r)
          \/ assertWithinRateLimit_check(r)
          \/ getContext(r)
          \/ streamChat(r)
          \/ storageFailure(r)

ChatSpec == Init /\ [][ChatNext]_vars

\* ------------------------------------- one identity, both ways to its actor
\* The requests to /chat and the bodies sent straight to the actor that
\* carry the identity a or none: every way a request can fail is among them.
FailureRequests == {q \in ChatRequests : q.email \in {undefined, some(<<"a">>), some(<<"?">>)}}
FailureDeliveries ==
    {d \in Deliveries : d.name = <<"a">> /\ d.body.email \in {undefined, some(<<"a">>)}}

FailureNext ==
    \/ Tick
    \/ \E r \in Reqs :
          \/ handleChatRequest(r, FailureRequests)
          \/ routeAgentRequest(r, FailureDeliveries)
          \/ parseAgentPayload(r)
          \/ ensureActiveEmail_getState(r)
          \/ ensureActiveEmail_setState(r)
          \/ assertWithinRateLimit_getState(r)
          \/ assertWithinRateLimit_check(r)
          \/ getContext(r)
          \/ streamChat(r)
          \/ storageFailure(r)

FailureSpec == Init /\ [][FailureNext]_vars

\* ------------------------------------------- one request, every payload
\* The strings of at most n characters over x and the blank.
RECURSIVE Texts(_)
Texts(n) ==
    IF n = 0 THEN {<<>>}
    ELSE Texts(n - 1) \cup {Append(s, c) : s \in {t \in Texts(n - 1) : Len(t) = n - 1},
                                           c \in {"x", " "}}

\* Message entries: every role shape, every content up to one character
\* over the cap, and parts that are absent, empty, blank, filled or too long.
PayloadMessages ==
    [role : {<<>>, user, <<"U", "S", "E", "R">>, <<"t", "o", "o", "l">>},
     content : {undefined} \cup {some(s) : s \in Texts(maxTextLength + 1)},
     parts : {undefined, some(<<>>), some(<<[text |-> undefined]>>),
              some(<<[text |-> some(<<" ">>)], [text |-> some(<<"x">>)]>>),
              some(<<[text |-> some(<<"x", " ">>)], [text |-> some(<<"x">>)]>>)}
             \cup {some(<<[text |-> some(s)]>>) :
                      s \in {t \in Texts(maxTextLength + 1) : \A k \in 1..Len(t) : t[k] = "x"}}]

neither == [role |-> user, content |-> undefined, parts |-> undefined]

\* Lists of n entries, each a complete entry or one with neither content nor parts.
RECURSIVE ListsOf(_)
ListsOf(n) ==
    IF n = 0 THEN {<<>>}
    ELSE {Append(l, m) : l \in ListsOf(n - 1), m \in {hello, neither}}

\* Lists of messages: one entry of any shape, or none to one over the
\* actor's cap of the two entries above.
PayloadLists ==
    {<<m>> : m \in PayloadMessages}
    \cup UNION {ListsOf(n) : n \in 0..(agentMaxMessages + 1)}

\* Requests to /chat: at, under and over the size cap, JSON or not.
PayloadRequests ==
    [bytes : {1024, MAX_PAYLOAD_BYTES, MAX_PAYLOAD_BYTES + 1},
     json : BOOLEAN,
     email : {some(<<"A", " ">>), some(<<"?">>)},
     messages : PayloadLists]

\* Bodies sent to the actor of their identity without passing the worker.
PayloadDeliveries ==
    {[name |-> <<"a">>, body |-> [json |-> TRUE, email |-> some(<<"a">>), messages |-> l]] :
        l \in PayloadLists}

PayloadNext ==
    \/ handleChatRequest(1, PayloadRequests)
    \/ routeAgentRequest(1, PayloadDeliveries)
    \/ parseAgentPayload(1)
    \/ ensureActiveEmail_getState(1)
    \/ ensureActiveEmail_setState(1)
    \/ assertWithinRateLimit_getState(1)
    \/ assertWithinRateLimit_check(1)
    \/ getContext(1)
    \/ streamChat(1)
    \/ storageFailure(1)

PayloadSpec == Init /\ [][PayloadNext]_vars

\* ------------------------------------------------- profiles and the builder
\* Runs and plans as an earlier upsertProfile can have stored them.
BuildRuns ==
    {[dateISO |-> <<"d">>, distanceKm |-> km, durationMinutes |-> min] :
        km \in {undefined, some(0), some(5)}, min \in {undefined, some(30)}}

BuildPlans ==
    {[createdAt |-> <<"t">>, title |-> title, focus |-> focus] :
        title \in {undefined, some(<<>>), some(<<"Base Build">>)},
        focus \in {undefined, some(<<"speed">>)}}

\* The profile of identity a with nothing but what createEmptyProfile sets.
bare == createEmptyProfile(<<"a">>, 0)

\* Profiles of identity a: bare, one optional field set, an empty name,
\* every field set, a last run after an earlier one, a last plan after an
\* earlier one, and both.
BuildProfiles ==
    {bare,
     [bare EXCEPT !.firstName = some(<<"R">>)],
     [bare EXCEPT !.firstName = some(<<>>)],
     [bare EXCEPT !.experienceLevel = some(<<"beginner">>)],
     [bare EXCEPT !.primaryGoal = some(<<"10k">>)],
     [bare EXCEPT !.weeklyAvailability = some(<<"3 days">>)],
     [bare EXCEPT !.upcomingEvent = some(<<"race">>)],
     [bare EXCEPT !.notes = some(<<"n">>)],
     [bare EXCEPT !.planFeedback = some(<<"ok">>)],
     [bare EXCEPT !.firstName = some(<<"R">>), !.experienceLevel = some(<<"beginner">>),
                  !.primaryGoal = some(<<"10k">>), !.weeklyAvailability = some(<<"3 days">>),
                  !.upcomingEvent = some(<<"race">>), !.notes = some(<<"n">>),
                  !.planFeedback = some(<<"ok">>)]}
    \cup {[bare EXCEPT !.recentRuns = <<run>>] : run \in BuildRuns}
    \cup {[bare EXCEPT !.savedPlans = <<plan>>] : plan \in BuildPlans}
    \cup {[bare EXCEPT !.recentRuns =
                           <<[dateISO |-> <<"c">>, distanceKm |-> some(9),
                              durationMinutes |-> undefined], run>>,
                       !.savedPlans =
                           <<[createdAt |-> <<"s">>, title |-> some(<<"Early">>),
                              focus |-> undefined], plan>>] :
             run \in {r \in BuildRuns : r.distanceKm = some(5)},
             plan \in {p \in BuildPlans : p.focus = undefined}}

\* What the storage of the instance of a holds before the requests: nothing,
\* or the state an upsertProfile for a left.
BuildStored ==
    {<<>>}
    \cup {<<[activeEmail |-> <<"a">>,
             profiles |-> [DEFAULT_STATE.profiles EXCEPT ![<<"a">>] = <<p>>],
             usage |-> withUsageEntry(DEFAULT_STATE.usage, <<"a">>, 0)]>> : p \in BuildProfiles}

BuildInit ==
    /\ clock = 0
    /\ stored \in {[i \in Instances |-> IF i = idFromName(<<"a">>) THEN st ELSE <<>>] :
                      st \in BuildStored}
    /\ gate = [i \in Instances |-> [holder |-> NoReq, queue |-> <<>>]]
    /\ pc = [r \in Reqs |-> "new"]
    /\ req = [r \in Reqs |-> NoRequest]
    /\ snap = [r \in Reqs |-> <<>>]
    /\ resp = [r \in Reqs |-> 0]
    /\ usage0 = [r \in Reqs |-> <<>>]
    /\ reply = [r \in Reqs |-> <<>>]
    /\ aiCalls = [r \in Reqs |-> <<>>]
    /\ input = [r \in Reqs |-> <<>>]

\* Messages: an answer whose content has a space before it, a role in
\* capitals whose content is blank and whose parts are blank, absent and
\* filled, and a role outside the three.
hey == [role |-> assistant, content |-> some(<<" ", "y">>), parts |-> undefined]
spoken ==
    [role |-> <<"U", "S", "E", "R">>, content |-> some(<<" ">>),
     parts |-> some(<<[text |-> some(<<" ">>)], [text |-> some(<<"x", " ">>)],
                      [text |-> undefined], [text |-> some(<<"z">>)]>>)]
tool == [role |-> <<"t", "o", "o", "l">>, content |-> some(<<"hi">>), parts |-> undefined]

\* Requests to /chat and bodies delivered to the actor of a.
BuildRequests ==
    {[bytes |-> 1024, json |-> TRUE, email |-> some(<<"a">>), messages |-> l] :
        l \in {<<hello>>, <<hey, hello>>, <<hello, hey>>}}

BuildDeliveries ==
    {[name |-> <<"a">>, body |-> [json |-> TRUE, email |-> some(<<"a">>), messages |-> l]] :
        l \in {<<neither, hello>>, <<spoken>>, <<hello, tool, hey>>, <<spoken, neither, hey>>}}

\* Two requests, one after the other or the second waiting for the first.
BuildNext ==
    \/ Tick
    \/ \E r \in 1..2 :
          \/ handleChatRequest(r, BuildRequests)
          \/ routeAgentRequest(r, BuildDeliveries)
          \/ parseAgentPayload(r)
          \/ ensureActiveEmail_getState(r)
          \/ ensureActiveEmail_setState(r)
          \/ assertWithinRateLimit_getState(r)
          \/ assertWithinRateLimit_check(r)
          \/ getContext(r)
          \/ streamChat(r)

BuildSpec == BuildInit /\ [][BuildNext]_vars

\* --------------------------------------------- two identities, one actor
\* Bodies delivered to the actor named a: the name is in the URL and the
\* identity in the body, and nothing makes them agree.
SharedDeliveries ==
    {[name |-> <<"a">>, body |-> b] :
        b \in {[json |-> FALSE, email |-> undefined, messages |-> <<>>]}
              \cup {[json |-> TRUE, email |-> some(e), messages |-> <<hello>>] : e \in RawEmails}}

SharedNext ==
    \/ Tick
    \/ \E r \in Reqs :
          \/ routeAgentRequest(r, SharedDeliveries)
          \/ parseAgentPayload(r)
          \/ ensureActiveEmail_getState(r)
          \/ ensureActiveEmail_setState(r)
          \/ assertWithinRateLimit_getState(r)
          \/ assertWithinRateLimit_check(r)
          \/ getContext(r)
          \/ streamChat(r)
          \/ storageFailure(r)

SharedSpec == Init /\ [][SharedNext]_vars

\* ------------------------------- the worker of src/run-buddy/src/index.ts
\* chatPayloadSchema.safeParse(rawBody) of this worker: the same email and
\* message schemas, no upper bound on the number of messages, no transform.
indexChatPayloadSchema(rawBody) ==
    LET count == IF Len(rawBody.messages) = 0
                     THEN <<issue(<<"messages">>, "messages must include at least one item")>>
                     ELSE <<>>
        issues == emailIssues(rawBody) \o count
                  \o flat([k \in 1..Len(rawBody.messages) |->
                              chatMessageIssues(rawBody.messages[k], k)])
    IN  [success |-> issues = <<>>,
         issues |-> issues,
         data |-> IF issues # <<>> THEN undefined
                  ELSE some([email |-> toLowerCase(trim(rawBody.email[1])),
                             messages |-> rawBody.messages])]

\* parseChatPayload of this worker: request.json(), then safeParse; the
\* size of the body is not looked at.
indexParseChatPayload(request) ==
    IF ~request.json
        THEN [error |-> some(HttpError(400, "Invalid JSON body", undefined)), data |-> undefined]
    ELSE IF ~indexChatPayloadSchema(request).success
        THEN [error |-> some(HttpError(400, "Invalid chat payload",
                                       some(indexChatPayloadSchema(request).issues))),
              data |-> undefined]
    ELSE [error |-> undefined, data |-> indexChatPayloadSchema(request).data]

\* forwardChatToDurableObject of this worker: idFromName(email), then
\* stub.fetch with the body JSON.stringify({ messages }): no email in it.
indexForwardChatToDurableObject(r, request, email, messages) ==
    /\ fetch(r, email, [json |-> TRUE, email |-> undefined, messages |-> messages])
    /\ UNCHANGED <<snap, resp, usage0, reply>>

\* handleChatRequest of this worker.
indexHandleChatRequest(r, requests) ==
    /\ NextDelivered(r)
    /\ \E request \in requests :
          /\ input' = [input EXCEPT ![r] = some(request)]
          /\ IF indexParseChatPayload(request).error # undefined
                THEN chatRespond(r, chatError(indexParseChatPayload(request).error[1]))
                ELSE \/ indexForwardChatToDurableObject(r, request,
                            indexParseChatPayload(request).data[1].email,
                            indexParseChatPayload(request).data[1].messages)
                     \/ \E error \in InternalErrors : chatRespond(r, chatError(error))
    /\ UNCHANGED <<clock, stored, aiCalls>>

\* This worker in front of the actors: POST /chat goes through
\* handleChatRequest, any other path straight to the actor of its name.
IndexNext ==
    \/ Tick
    \/ \E r \in Reqs :
          \/ indexHandleChatRequest(r, FailureRequests)
          \/ routeAgentRequest(r, FailureDeliveries)
          \/ parseAgentPayload(r)
          \/ ensureActiveEmail_getState(r)
          \/ ensureActiveEmail_setState(r)
          \/ assertWithinRateLimit_getState(r)
          \/ assertWithinRateLimit_check(r)
          \/ getContext(r)
          \/ streamChat(r)
          \/ storageFailure(r)

IndexSpec == Init /\ [][IndexNext]_vars

\* ================================================================ claims
\* The handler of r is between entering the section and its response.
InFlight(r) == pc[r] \notin {"new", "queued", "done"}

\* The persisted usage entry (<<>> or <<entry>>) of an identity on an instance.
Usage(st, e) == getState(st).usage[e]

\* The persisted activity log of an identity on an instance.
Runs(st, e) ==
    IF getState(st).profiles[e] = <<>> THEN <<>> ELSE getState(st).profiles[e][1].recentRuns

Entries(seq) == {seq[k] : k \in 1..Len(seq)}

\* The operations for one name that have completed.
DoneOps(n) == {r \in Reqs : pc[r] = "done" /\ req[r].name = n}

\* C1: on one instance at most one request is between validation and its
\* response at any time: two requests that have both started and not yet
\* been answered are on different instances.
C1_OneInFlight ==
    \A r1, r2 \in Reqs :
        (r1 # r2 /\ InFlight(r1) /\ InFlight(r2)) => inst(r1) # inst(r2)

\* A second request for the same instance is waiting while the first one is
\* suspended in the inference call.
C1_Witness ==
    \E r1, r2 \in Reqs :
        /\ r1 # r2
        /\ pc[r1] = "ai"
        /\ pc[r2] = "queued"
        /\ inst(r1) = inst(r2)

\* C2: when the operations that append one entry each run inside the
\* section, the persisted activity log of an identity holds exactly one
\* entry per completed operation: none is lost, none is doubled.
C2_NoLostUpdate ==
    \A n \in Names :
        /\ Len(Runs(stored[idFromName(n)], n)) = Cardinality(DoneOps(n))
        /\ Entries(Runs(stored[idFromName(n)], n)) = DoneOps(n)

\* All the operations were for one identity and all have completed.
C2_Witness ==
    \E n \in Names :
        /\ DoneOps(n) = Reqs
        /\ Len(Runs(stored[idFromName(n)], n)) = NumReqs

\* C3: with no section, an operation that persists writes its own snapshot
\* plus its entry, so every entry persisted since it loaded is dropped.
C3_LostUpdateHazard ==
    [][\A r \in Reqs :
          (pc[r] = "upsert_set" /\ pc'[r] = "done") =>
              /\ Runs(stored'[inst(r)], req[r].name)
                     = Append(Runs(snap[r], req[r].name), r)
              /\ \A x \in Entries(Runs(stored[inst(r)], req[r].name))
                              \ Entries(Runs(snap[r], req[r].name)) :
                     x \notin Entries(Runs(stored'[inst(r)], req[r].name))]_vars

\* Two operations for one identity have completed, both loaded before
\* either persisted, and only one of the two entries is persisted.
C3_Witness ==
    \E n \in Names :
        /\ pc[1] = "done" /\ pc[2] = "done"
        /\ req[1].name = n /\ req[2].name = n
        /\ \A r \in Reqs \ {1, 2} : pc[r] = "new"
        /\ Len(Runs(stored[idFromName(n)], n)) = 1

\* The limiter admits r in this step.
Admits(r) == pc[r] = "limit_set" /\ pc'[r] = "context_get"

\* The limiter decides on r in this step (admission, rejection or failure).
Decides(r) == pc[r] = "limit_set" /\ pc'[r] # "limit_set"

\* C4: every admission raises the persisted count of its identity by
\* exactly one within the window, or sets it to one with the window start
\* at now when the persisted window has expired (so an expired window is
\* reset once); nothing else changes a usage entry, except its creation
\* with count zero.
C4_AtomicCheckAndIncrement ==
    [][/\ \A r \in Reqs :
             Admits(r) =>
                 LET old == Usage(stored[inst(r)], req[r].email)
                     new == Usage(stored'[inst(r)], req[r].email)
                 IN  /\ old # <<>>
                     /\ new # <<>>
                     /\ IF clock - old[1].windowStart.iso >= WindowMs
                           THEN new[1] = [count |-> 1, windowStart |-> [iso |-> clock]]
                           ELSE new[1] = [count |-> old[1].count + 1,
                                          windowStart |-> old[1].windowStart]
       /\ \A i \in Instances, e \in Emails :
             Usage(stored'[i], e) # Usage(stored[i], e) =>
                 \/ \E r \in Reqs : Admits(r) /\ inst(r) = i /\ req[r].email = e
                 \/ Usage(stored[i], e) = <<>> /\ Usage(stored'[i], e)[1].count = 0]_vars

\* Two requests of one identity have been admitted in one window while a
\* third one of that instance is waiting: the count is two.
C4_Witness ==
    \E r \in Reqs :
        /\ pc[r] = "context_get"
        /\ gate[inst(r)].queue # <<>>
        /\ Usage(stored[inst(r)], req[r].email) # <<>>
        /\ Usage(stored[inst(r)], req[r].email)[1].count = 2

\* C5: requests of one instance run in the order they were delivered: a
\* request has started only if every earlier request of its instance has
\* been answered, and the storage of an instance is written only by a step
\* of the request that holds its section.
C5_ArrivalOrder ==
    /\ [](\A r1, r2 \in Reqs :
            (r1 < r2 /\ pc[r1] # "new" /\ inst(r1) = inst(r2) /\ pc[r2] \notin {"new", "queued"})
                => pc[r1] = "done")
    /\ [][\A i \in Instances :
            stored'[i] # stored[i] =>
                /\ gate[i].holder # NoReq
                /\ pc'[gate[i].holder] # pc[gate[i].holder]]_vars

\* Three requests for one instance: the first is answered, the second is
\* running, the third is waiting.
C5_Witness ==
    /\ pc[1] = "done"
    /\ InFlight(2)
    /\ pc[3] = "queued"
    /\ inst(1) = inst(2)
    /\ inst(2) = inst(3)

\* C6: a request that has been answered, whatever the answer, no longer
\* holds the section, and every waiting request is eventually answered.
C6_SectionReleased ==
    /\ [](\A r \in Reqs : pc[r] = "done" => gate[inst(r)].holder # r)
    /\ \A r \in Reqs : (pc[r] = "queued") ~> (pc[r] = "done")

\* The first request ended with an error and a later request of the same
\* instance is running while a third one waits.
C6_Witness ==
    /\ pc[1] = "done"
    /\ resp[1] \in {400, 429, 500}
    /\ InFlight(2)
    /\ pc[3] = "queued"
    /\ inst(1) = inst(2)
    /\ inst(2) = inst(3)

\* C7: a request waits only behind requests routed by its own name, and a
\* step changes the storage and the gate of one instance only, the one of
\* the request that takes it.
C7_Isolation ==
    /\ [](\A i \in Instances :
            \A k \in 1..Len(gate[i].queue) :
                req[gate[i].queue[k]].name = req[gate[i].holder].name)
    /\ [][\A i \in Instances :
            (stored'[i] # stored[i] \/ gate'[i] # gate[i]) =>
                /\ \E r \in Reqs : pc'[r] # pc[r]
                /\ \A r \in Reqs : pc'[r] # pc[r] => idFromName(req'[r].name) = i]_vars

\* The first request delivered is still suspended in the inference call
\* while a later request for another name has been answered with the stream.
C7_Witness ==
    /\ pc[1] = "ai"
    /\ \E r \in Reqs :
          /\ r > 1
          /\ pc[r] = "done"
          /\ resp[r] = 200
          /\ req[r].name # req[1].name

\* C8: the persisted count of every usage entry is between 0 and the
\* ceiling, and the limiter answers 429 exactly when the persisted count
\* has reached the ceiling in a window that has not expired.
C8_Ceiling ==
    /\ [](\A i \in Instances, e \in Emails :
            Usage(stored[i], e) # <<>> =>
                (Usage(stored[i], e)[1].count >= 0 /\ Usage(stored[i], e)[1].count <= Limit))
    /\ [][\A r \in Reqs :
            Decides(r) =>
                LET old == Usage(stored[inst(r)], req[r].email)
                IN  (resp'[r] = 429) <=>
                        /\ old # <<>>
                        /\ old[1].count = Limit
                        /\ clock - old[1].windowStart.iso < WindowMs]_vars

\* Exactly Limit requests of one identity were admitted and answered with
\* the stream, the count is at the ceiling, and the next one got 429.
C8_Witness ==
    \E r \in Reqs :
        /\ resp[r] = 429
        /\ Cardinality({q \in Reqs : req[q].name = req[r].name /\ resp[q] = 200}) = Limit
        /\ Usage(stored[inst(r)], req[r].name)[1].count = Limit

\* C9: when the limiter decides on a request at a time now with
\* now - windowStart >= windowMs, and storage does not fail, the request is
\* admitted and the persisted window is count 1, windowStart now.
C9_WindowReset ==
    [][\A r \in Reqs :
          (Decides(r) /\ resp'[r] # 500) =>
              LET old == Usage(stored[inst(r)], req[r].email)
              IN  (old # <<>> /\ clock - old[1].windowStart.iso >= WindowMs) =>
                      /\ pc'[r] = "context_get"
                      /\ Usage(stored'[inst(r)], req[r].email)
                             = <<[count |-> 1, windowStart |-> [iso |-> clock]]>>]_vars

\* Limit requests of one identity were admitted, the window elapsed, and a
\* further request has just been admitted into a new window.
C9_Witness ==
    \E r \in Reqs :
        /\ pc[r] = "context_get"
        /\ clock >= WindowMs
        /\ Usage(stored[inst(r)], req[r].email) = <<[count |-> 1, windowStart |-> [iso |-> clock]]>>
        /\ Cardinality({q \in Reqs : req[q].name = req[r].name /\ resp[q] = 200}) = Limit

\* C10: the step that answers 429 writes nothing, the usage entry of the
\* request's identity is then what it was when the request was parsed, and
\* the rejected request does not keep the section.
C10_RejectionLeavesWindow ==
    /\ [](\A r \in Reqs : resp[r] = 429 => gate[inst(r)].holder # r)
    /\ [][\A r \in Reqs :
            (resp[r] = 0 /\ resp'[r] = 429) =>
                /\ usage0[r] # <<>>
                /\ Usage(stored'[inst(r)], req[r].email) = usage0[r]
                /\ stored' = stored]_vars

\* A request has been rejected, the persisted count is still the ceiling
\* and the section of its instance is free.
C10_Witness ==
    \E r \in Reqs :
        /\ resp[r] = 429
        /\ gate[inst(r)].holder = NoReq
        /\ Usage(stored[inst(r)], req[r].name)[1].count = Limit

\* The persisted profile (<<>> or <<profile>>) of an identity on an instance.
Profile(st, e) == getState(st).profiles[e]

\* The request was POSTed to /chat and the worker sent it to an actor.
Forwarded(r) == input[r] # undefined /\ req[r].name # <<>>

\* The identity of a request to /chat as its sender spelled it.
Spelled(r) == input[r][1].email[1]

\* C11: normalising an identity twice gives what normalising it once gives;
\* requests to /chat whose identities normalise to the same string go to the
\* same instance, the one named by that string; an identity has a profile
\* record on that instance only; and the createdAt of a record never changes
\* once the record exists.
C11_OneProfilePerIdentity ==
    /\ [](\A r \in Reqs :
            (input[r] # undefined /\ input[r][1].email # undefined) =>
                normaliseEmail(normaliseEmail(Spelled(r))) = normaliseEmail(Spelled(r)))
    /\ [](\A r1, r2 \in Reqs :
            (Forwarded(r1) /\ Forwarded(r2)
                 /\ normaliseEmail(Spelled(r1)) = normaliseEmail(Spelled(r2)))
                => /\ inst(r1) = inst(r2)
                   /\ inst(r1) = idFromName(normaliseEmail(Spelled(r1))))
    /\ [](\A e \in Emails, i \in Instances :
            Profile(stored[i], e) # <<>> => i = idFromName(e))
    /\ [][\A e \in Emails, i \in Instances :
            Profile(stored[i], e) # <<>> =>
                /\ Profile(stored'[i], e) # <<>>
                /\ Profile(stored'[i], e)[1].createdAt = Profile(stored[i], e)[1].createdAt]_vars

\* A request spelled "A " was answered with the stream; a later request
\* spelled "a" has passed ensureActiveEmail at a later time, and the record
\* still has the createdAt of the first.
C11_Witness ==
    \E r1, r2 \in Reqs :
        /\ r1 < r2
        /\ Forwarded(r1) /\ Forwarded(r2)
        /\ Spelled(r1) = <<"A", " ">> /\ Spelled(r2) = <<"a">>
        /\ resp[r1] = 200
        /\ pc[r2] = "limit_get"
        /\ Profile(stored[inst(r2)], <<"a">>) # <<>>
        /\ getTime(Profile(stored[inst(r2)], <<"a">>)[1].createdAt) < clock

\* The order of the steps of one request: out of the worker into the
\* section (at once or after waiting), validation, ensureActiveEmail, the
\* rate limit, the profile snapshot and the context, the inference call; a
\* response can end it at any step.
StepOrder ==
    {<<"new", "queued">>, <<"new", "parse">>, <<"queued", "parse">>,
     <<"parse", "ensure_get">>, <<"ensure_get", "ensure_set">>,
     <<"ensure_set", "limit_get">>, <<"limit_get", "limit_set">>,
     <<"limit_set", "context_get">>, <<"context_get", "ai">>}
    \cup {<<p, "done">> : p \in {"new", "parse", "ensure_get", "ensure_set", "limit_get",
                                "limit_set", "context_get", "ai"}}

\* C12: a request moves through the steps in the fixed order only; it
\* passes validation only with a body the actor's schema accepts, and the
\* rate limit only when its identity's persisted count is under the ceiling
\* or its window has expired; ai.run is called once, from the context step,
\* and never for a request that is answered 400, 413 or 429.
C12_StepOrder ==
    /\ [][\A r \in Reqs :
            /\ pc'[r] # pc[r] => <<pc[r], pc'[r]>> \in StepOrder
            /\ (pc[r] = "parse" /\ pc'[r] = "ensure_get") =>
                   (req[r].body.json /\ agentPayloadSchema(req[r].body).success)
            /\ (pc[r] = "limit_set" /\ pc'[r] = "context_get") =>
                   LET old == Usage(stored[inst(r)], req[r].email)
                   IN  /\ old # <<>>
                       /\ \/ old[1].count < Limit
                          \/ clock - getTime(old[1].windowStart) >= WindowMs
            /\ aiCalls'[r] # aiCalls[r] =>
                   (aiCalls[r] = undefined /\ pc[r] = "context_get" /\ pc'[r] = "ai")]_vars
    /\ [](\A r \in Reqs :
            /\ resp[r] \in {400, 413, 429} => aiCalls[r] = undefined
            /\ pc[r] = "ai" => aiCalls[r] # undefined)

\* One request was answered 429 without any call of ai.run, after the
\* requests admitted before it were answered with the stream ai.run gave.
C12_Witness ==
    \E r \in Reqs :
        /\ resp[r] = 429
        /\ aiCalls[r] = undefined
        /\ \A q \in Reqs \ {r} : resp[q] = 200 /\ aiCalls[q] # undefined

\* An identity that is missing or is not an address after trimming and
\* lower-casing.
BadIdentity(body) ==
    \/ body.email = undefined
    \/ normaliseEmail(body.email[1]) \notin Emails

\* An entry with neither a non-empty content nor a non-empty list of parts.
Neither(m) ==
    /\ m.content = undefined \/ m.content[1] = <<>>
    /\ m.parts = undefined \/ m.parts[1] = <<>>

\* What the worker's schema refuses.
WorkerDefect(body) ==
    \/ BadIdentity(body)
    \/ Len(body.messages) = 0
    \/ Len(body.messages) > chatMaxMessages
    \/ \E k \in 1..Len(body.messages) :
          \/ body.messages[k].role = <<>>
          \/ Neither(body.messages[k])
          \/ /\ body.messages[k].parts # undefined
             /\ \E j \in 1..Len(body.messages[k].parts[1]) :
                   body.messages[k].parts[1][j].text = undefined

\* What the actor's schema refuses.
ActorDefect(body) ==
    \/ BadIdentity(body)
    \/ Len(body.messages) = 0
    \/ Len(body.messages) > agentMaxMessages
    \/ \E k \in 1..Len(body.messages) : body.messages[k].role = <<>>

\* The persisted count of the identity of r is at the ceiling in a window
\* that has not expired.
AtCeiling(r) ==
    LET old == Usage(stored[inst(r)], req[r].email)
    IN  /\ old # <<>>
        /\ old[1].count >= Limit
        /\ clock - getTime(old[1].windowStart) < WindowMs

\* r is answered in this step.
Answered(r) == resp[r] = 0 /\ resp'[r] # 0

C14_GenericInternalError ==
    \A r \in Reqs :
        resp[r] = 500 =>
            \/ reply[r] = some([type |-> "application/json",
                                body |-> [kind |-> "json", error |-> "Internal error",
                                          issues |-> undefined, text |-> <<>>]])
            \/ reply[r] = some([type |-> "",
                                body |-> [kind |-> "text", error |-> "",
                                          issues |-> undefined,
                                          text |-> <<"Internal Server Error">>]])

\* ai.run was called for a request and rejected, a storage operation
\* failed for another, and the worker could not reach the actor for a third.
C14_Witness ==
    /\ \A r \in Reqs : resp[r] = 500
    /\ \E r \in Reqs : aiCalls[r] # undefined
    /\ \E r \in Reqs : aiCalls[r] = undefined /\ req[r].name # <<>>
    /\ \E r \in Reqs : req[r].name = <<>> /\ reply[r][1].type = ""

\* C15: every failure response to a request POSTed to /chat is JSON with an
\* error string, and a validation failure carries a non-empty list of
\* issues, each a path and a message.
C15_FailureIsJson ==
    \A r \in Reqs :
        (input[r] # undefined /\ resp[r] \notin {0, 200}) =>
            /\ reply[r][1].type = "application/json"
            /\ reply[r][1].body.kind = "json"
            /\ reply[r][1].body.error # ""
            /\ (resp[r] = 400 /\ input[r][1].json) =>
                   reply[r][1].body.issues \notin {undefined, some(<<>>)}

\* The request of r to /chat is within the size cap and is JSON.
Readable(r) ==
    /\ input[r] # undefined
    /\ input[r][1].bytes <= MAX_PAYLOAD_BYTES
    /\ input[r][1].json

\* The worker answered r itself with this status and sent nothing to an actor.
Refused(r, status) ==
    /\ pc[r] = "done"
    /\ resp[r] = status
    /\ req[r] = NoRequest
    /\ aiCalls[r] = undefined

TextNamesMessages(r) ==
    /\ reply[r] # undefined
    /\ reply[r][1].body.kind = "text"
    /\ \E j \in 1..(Len(reply[r][1].body.text) - 1) :
          /\ reply[r][1].body.text[j] = "messages"
          /\ reply[r][1].body.text[j + 1] = ": "
          /\ (j = 1 \/ reply[r][1].body.text[j - 1] = "; ")

\* The actor's answer to r lists an issue at the messages field.
JsonNamesMessages(r) ==
    /\ reply[r] # undefined
    /\ reply[r][1].body.kind = "json"
    /\ reply[r][1].body.issues # undefined
    /\ \E j \in 1..Len(reply[r][1].body.issues[1]) :
          reply[r][1].body.issues[1][j].path = <<"messages">>

Cut(text) ==
    IF text = undefined THEN undefined
    ELSE some([j \in 1..(IF Len(text[1]) < maxTextLength THEN Len(text[1]) ELSE maxTextLength)
                  |-> text[1][j]])

\* An entry with every text field cut, and nothing else changed.
CutEntry(m) ==
    [role |-> m.role,
     content |-> Cut(m.content),
     parts |-> IF m.parts = undefined THEN undefined
               ELSE some([j \in 1..Len(m.parts[1]) |-> [text |-> Cut(m.parts[1][j].text)]])]

\* C18: a text field over maxTextLength is cut to its first maxTextLength
\* characters, a field within the limit is unchanged, and the request is
\* accepted: what the worker forwards of a request to /chat is its messages
\* with every field cut; a request to /chat with no other defect is never
\* answered 400 or 413; and the messages the actor's validation hands on
\* are those of the body it received with every field cut.
C18_OversizedFieldTruncated ==
    /\ [](\A r \in Reqs :
            (Forwarded(r) /\ pc[r] # "done")
                => req[r].body.messages =
                      [k \in 1..Len(input[r][1].messages) |-> CutEntry(input[r][1].messages[k])])
    /\ [](\A r \in Reqs :
            (Readable(r) /\ ~WorkerDefect(input[r][1])) => resp[r] \notin {400, 413})
    /\ [][\A r \in Reqs :
            (pc[r] = "parse" /\ pc'[r] # "parse" /\ req[r].body.json
                 /\ ~ActorDefect(req[r].body))
                => /\ pc'[r] = "ensure_get"
                   /\ req'[r].messages =
                         [k \in 1..Len(req[r].body.messages) |->
                             CutEntry(req[r].body.messages[k])]]_vars

\* C19: a request with an entry that has neither content nor a non-empty
\* list of parts fails validation with status 400: the worker answers such
\* a request to /chat with 400 and forwards nothing, and the actor answers
\* such a body with 400.
C19_NeitherRefused ==
    /\ [](\A r \in Reqs :
            (Readable(r) /\ \E k \in 1..Len(input[r][1].messages) :
                                Neither(input[r][1].messages[k]))
                => Refused(r, 400))
    /\ [][\A r \in Reqs :
            (pc[r] = "parse" /\ pc'[r] # "parse" /\ req[r].body.json
                 /\ \E k \in 1..Len(req[r].body.messages) : Neither(req[r].body.messages[k]))
                => (pc'[r] = "done" /\ resp'[r] = 400)]_vars

\* A text of spaces only, or of nothing.
Blank(text) == \A j \in 1..Len(text) : text[j] = " "

\* The entry has content to pass on: a content that is not blank, or a part
\* whose text is not blank.
HasContent(m) ==
    \/ m.content # undefined /\ ~Blank(m.content[1])
    \/ /\ m.parts # undefined
       /\ \E j \in 1..Len(m.parts[1]) :
             m.parts[1][j].text # undefined /\ ~Blank(m.parts[1][j].text[1])

\* The entry's role, lower-cased, is one of the three, and it has content.
Retained(m) ==
    /\ toLowerCase(m.role) \in {system, user, assistant}
    /\ HasContent(m)

\* C20: the list handed to the inference call is the system prompt followed
\* by one entry for each message that is Retained, in the order of the
\* messages, with the role lower-cased and a content that is not empty (the
\* trimmed content when the message has one that is not blank); a message
\* that is not Retained has no entry, and the request goes on without error.
C20_RetainedIffRoleAndContent ==
    \A r \in Reqs :
        pc[r] = "ai" =>
            LET ms == req[r].messages
                out == Tail(aiCalls[r][1])
                kept == SelectSeq([k \in 1..Len(ms) |-> k], LAMBDA k : Retained(ms[k]))
            IN  /\ resp[r] = 0
                /\ aiCalls[r][1][1].role = system
                /\ Len(out) = Len(kept)
                /\ \A p \in 1..Len(kept) :
                      /\ out[p].role = toLowerCase(ms[kept[p]].role)
                      /\ out[p].content # <<>>
                      /\ (ms[kept[p]].content # undefined /\ ~Blank(ms[kept[p]].content[1]))
                            => out[p].content = trim(ms[kept[p]].content[1])

\* A message with neither content nor parts, then a complete one: the call
\* is made with the system prompt and the second message only.
C20_Witness ==
    \E r \in Reqs :
        /\ pc[r] = "ai"
        /\ req[r].messages = <<neither, hello>>
        /\ Len(aiCalls[r][1]) = 2
        /\ aiCalls[r][1][2] = [role |-> user, content |-> <<"h", "i">>]

\* s starts with the string p.
StartsWith(s, p) == Len(s) >= Len(p) /\ SubSeq(s, 1, Len(p)) = p

\* C21: the list handed to the inference call begins with the system entry,
\* whose content begins with the base prompt, and the rest is the retained
\* messages in the order they came in: a strictly increasing choice of
\* positions of the input that takes every Retained message and no other.
C21_SystemFirstThenInOrder ==
    \A r \in Reqs :
        pc[r] = "ai" =>
            LET ms == req[r].messages
                out == aiCalls[r][1]
                rest == Tail(out)
            IN  /\ Len(out) >= 1
                /\ out[1].role = system
                /\ StartsWith(out[1].content, basePrompt)
                /\ \E f \in [1..Len(rest) -> 1..Len(ms)] :
                      /\ \A p, q \in 1..Len(rest) : p < q => f[p] < f[q]
                      /\ \A k \in 1..Len(ms) :
                            Retained(ms[k]) <=> (\E p \in 1..Len(rest) : f[p] = k)
                      /\ \A p \in 1..Len(rest) :
                            /\ rest[p].role = toLowerCase(ms[f[p]].role)
                            /\ rest[p].content = extractContent(ms[f[p]])[1]

\* A message that is dropped between two different ones that are retained.
C21_Witness ==
    \E r \in Reqs :
        /\ pc[r] = "ai"
        /\ req[r].messages = <<hello, tool, hey>>
        /\ Len(aiCalls[r][1]) = 3
        /\ aiCalls[r][1][2] = [role |-> user, content |-> <<"h", "i">>]
        /\ aiCalls[r][1][3] = [role |-> assistant, content |-> <<"y">>]

\* The positions of the messages that are Retained, in order.
KeptIndices(ms) == SelectSeq([k \in 1..Len(ms) |-> k], LAMBDA k : Retained(ms[k]))

\* A text that is not blank, without the spaces before and after it.
Strip(text) ==
    LET first == CHOOSE i \in 1..Len(text) :
                     text[i] # " " /\ \A j \in 1..(i - 1) : text[j] = " "
        last == CHOOSE i \in 1..Len(text) :
                    text[i] # " " /\ \A j \in (i + 1)..Len(text) : text[j] = " "
    IN  [j \in 1..(last - first + 1) |-> text[first + j - 1]]

\* The texts of the parts of m that are present and not blank, in order.
FragmentTexts(m) ==
    IF m.parts = undefined THEN <<>>
    ELSE LET present == SelectSeq(m.parts[1],
                                  LAMBDA part : part.text # undefined /\ ~Blank(part.text[1]))
         IN  [j \in 1..Len(present) |-> present[j].text[1]]

\* The fragments, stripped, one after the other with a newline between two.
RECURSIVE Lines(_)
Lines(texts) ==
    IF Len(texts) = 0 THEN <<>>
    ELSE IF Len(texts) = 1 THEN Strip(texts[1])
    ELSE Strip(texts[1]) \o <<"\n">> \o Lines(Tail(texts))

\* The content of the entry built for each Retained message is this.
ContentsAre(r, Expected(_)) ==
    LET ms == req[r].messages
        out == Tail(aiCalls[r][1])
        kept == KeptIndices(ms)
    IN  /\ Len(out) = Len(kept)
        /\ \A p \in 1..Len(kept) : out[p].content = Expected(ms[kept[p]])

\* C22 as stated: the content of a retained message is the caller's content
\* as it came when that content is not blank, and otherwise the stripped
\* fragments that are not blank, joined with newlines in their order.
C22_ContentVerbatim ==
    \A r \in Reqs :
        pc[r] = "ai" =>
            ContentsAre(r, LAMBDA m : IF m.content # undefined /\ ~Blank(m.content[1])
                                          THEN m.content[1]
                                          ELSE Lines(FragmentTexts(m)))

\* C22: the content of a retained message is the caller's content without
\* the spaces before and after it when that content is not blank, and
\* otherwise the stripped fragments that are not blank, joined with
\* newlines in their order.
C22_ContentTrimmed ==
    \A r \in Reqs :
        pc[r] = "ai" =>
            ContentsAre(r, LAMBDA m : IF m.content # undefined /\ ~Blank(m.content[1])
                                          THEN Strip(m.content[1])
                                          ELSE Lines(FragmentTexts(m)))

\* A content with a space before it and a message whose content is blank
\* and whose fragments are blank, absent and filled.
C22_Witness ==
    \E r \in Reqs :
        /\ pc[r] = "ai"
        /\ req[r].messages = <<spoken, neither, hey>>
        /\ Tail(aiCalls[r][1]) = <<[role |-> user, content |-> <<"x", "\n", "z">>],
                                   [role |-> assistant, content |-> <<"y">>]>>

\* The string has this token in it.
Has(s, token) == \E k \in 1..Len(s) : s[k] = token

Tokens(s) == {s[k] : k \in 1..Len(s)}

\* The profile a request at the inference call was built with.
BuiltWith(r) == activeProfile(getState(stored[inst(r)]))[1]

\* The text every summary is made of, whatever the profile holds.
FixedText ==
    Tokens(basePrompt)
    \cup {"\n\nActive runner profile:\n", "\n", "Email: ", "Name: ", "Experience: ", "Goal: ",
          "Availability: ", "Upcoming Event: ", "Notes: ", "Feedback: ",
          "Recent runs logged: ", "Saved training plans: ", "Most recent run: ",
          "Latest plan: ", " ", "- ", "km", "in ", " minutes", " (", ")"}

OptionalText(opt) == IF opt = undefined THEN {} ELSE Tokens(opt[1])
OptionalNumber(opt) == IF opt = undefined THEN {} ELSE {ToString(opt[1])}

\* The text of the fields that the profile holds and the summary reads.
FieldText(p) ==
    Tokens(p.email)
    \cup OptionalText(p.firstName) \cup OptionalText(p.experienceLevel)
    \cup OptionalText(p.primaryGoal) \cup OptionalText(p.weeklyAvailability)
    \cup OptionalText(p.upcomingEvent) \cup OptionalText(p.notes)
    \cup OptionalText(p.planFeedback)
    \cup {ToString(Len(p.recentRuns)), ToString(Len(p.savedPlans))}
    \cup (IF Len(p.recentRuns) = 0 THEN {}
          ELSE LET lastRun == p.recentRuns[Len(p.recentRuns)]
               IN  Tokens(lastRun.dateISO) \cup OptionalNumber(lastRun.distanceKm)
                   \cup OptionalNumber(lastRun.durationMinutes))
    \cup (IF Len(p.savedPlans) = 0 THEN {}
          ELSE LET lastPlan == p.savedPlans[Len(p.savedPlans)]
               IN  Tokens(lastPlan.createdAt) \cup OptionalText(lastPlan.title)
                   \cup OptionalText(lastPlan.focus))

\* The label of a field is in the summary exactly when the field is set.
LabelWhenSet(content, label, opt) == Has(content, label) <=> (opt # undefined /\ opt[1] # <<>>)

\* The summary r was built with has the label of an optional field exactly
\* when the field is set, a distance and a duration in the line of the last
\* run only when the run has them, and nothing but fixed text, the text of
\* fields the profile holds, and these stand-ins.
SummaryOmitsAbsent(r, standIns) ==
    LET p == BuiltWith(r)
        content == aiCalls[r][1][1].content
    IN  /\ LabelWhenSet(content, "Name: ", p.firstName)
        /\ LabelWhenSet(content, "Experience: ", p.experienceLevel)
        /\ LabelWhenSet(content, "Goal: ", p.primaryGoal)
        /\ LabelWhenSet(content, "Availability: ", p.weeklyAvailability)
        /\ LabelWhenSet(content, "Upcoming Event: ", p.upcomingEvent)
        /\ LabelWhenSet(content, "Notes: ", p.notes)
        /\ LabelWhenSet(content, "Feedback: ", p.planFeedback)
        /\ Has(content, "Most recent run: ") <=> Len(p.recentRuns) > 0
        /\ Has(content, "Latest plan: ") <=> Len(p.savedPlans) > 0
        /\ Has(content, "km") =>
              p.recentRuns[Len(p.recentRuns)].distanceKm \notin {undefined, some(0)}
        /\ Has(content, " minutes") =>
              p.recentRuns[Len(p.recentRuns)].durationMinutes \notin {undefined, some(0)}
        /\ Tokens(content) \subseteq FixedText \cup FieldText(p) \cup standIns

\* The last plan of the profile has neither a title nor a focus.
LastPlanUnnamed(p) ==
    /\ Len(p.savedPlans) > 0
    /\ p.savedPlans[Len(p.savedPlans)].title = undefined
    /\ p.savedPlans[Len(p.savedPlans)].focus = undefined

\* C23 as stated: nothing stands in for a field that is absent, the title
\* of the last plan included.
C23_NoPlaceholder ==
    \A r \in Reqs : pc[r] = "ai" => SummaryOmitsAbsent(r, {})

\* C23: nothing stands in for a field that is absent, but for the name of
\* the last plan: a last plan with neither title nor focus is called
\* Untitled, and the word is in no other summary.
C23_NoPlaceholderButUntitled ==
    \A r \in Reqs :
        pc[r] = "ai" =>
            /\ SummaryOmitsAbsent(r, IF LastPlanUnnamed(BuiltWith(r)) THEN {"Untitled"} ELSE {})
            /\ LastPlanUnnamed(BuiltWith(r)) <=> Has(aiCalls[r][1][1].content, "Untitled")

\* A profile with nothing but a plan that has neither title nor focus.
C23_Witness ==
    \E r \in Reqs :
        /\ pc[r] = "ai"
        /\ LastPlanUnnamed(BuiltWith(r))
        /\ aiCalls[r][1][1].content =
              basePrompt \o <<"\n\nActive runner profile:\n", "Email: ", "a", "\n",
                              "Saved training plans: ", "1", "\n",
                              "Latest plan: ", "Untitled", " (", "t", ")">>

\* The string has this string in it, as one piece.
Contains(s, sub) ==
    \E k \in 0..(Len(s) - Len(sub)) : SubSeq(s, k + 1, k + Len(sub)) = sub

\* C25: when the profile has saved plans and the last of them has a title,
\* the system entry contains "Latest plan: " followed by that title and by
\* the createdAt of that plan in brackets, and has one such line only.
C25_LatestPlanTitle ==
    \A r \in Reqs :
        (pc[r] = "ai" /\ Len(BuiltWith(r).savedPlans) > 0) =>
            LET plans == BuiltWith(r).savedPlans
                lastPlan == plans[Len(plans)]
                content == aiCalls[r][1][1].content
            IN  lastPlan.title # undefined =>
                   /\ Contains(content, <<"Latest plan: ">> \o lastPlan.title[1])
                   /\ Contains(content, <<"Latest plan: ">> \o lastPlan.title[1]
                                        \o <<" (">> \o lastPlan.createdAt \o <<")">>)
                   /\ Cardinality({k \in 1..Len(content) : content[k] = "Latest plan: "}) = 1

\* A plan titled Base Build saved after an earlier one: the system entry
\* names Base Build and not the earlier plan.
C25_Witness ==
    \E r \in Reqs :
        /\ pc[r] = "ai"
        /\ Len(BuiltWith(r).savedPlans) = 2
        /\ BuiltWith(r).savedPlans[1].title = some(<<"Early">>)
        /\ Contains(aiCalls[r][1][1].content, <<"Latest plan: ", "Base Build">>)
        /\ ~Has(aiCalls[r][1][1].content, "Early")

\* The messages the worker forwarded of the request r made to /chat.
Sent(r) == chatPayloadSchema(input[r][1]).data[1].messages

\* C24: a profile that exists is changed by no step of a request, and two
\* requests to /chat for one identity with the same messages are handed to
\* the inference call as the same list, whenever each of them was built and
\* whatever the usage window, the clock and the requests before them were.
C24_Deterministic ==
    /\ [][\A e \in Emails, i \in Instances :
            Profile(stored[i], e) # <<>> => Profile(stored'[i], e) = Profile(stored[i], e)]_vars
    /\ [](\A r1, r2 \in Reqs :
            (/\ Forwarded(r1) /\ Forwarded(r2)
             /\ aiCalls[r1] # undefined /\ aiCalls[r2] # undefined
             /\ inst(r1) = inst(r2)
             /\ normaliseEmail(Spelled(r1)) = normaliseEmail(Spelled(r2))
             /\ Sent(r1) = Sent(r2))
                => aiCalls[r1] = aiCalls[r2])

\* The first request is over, the clock has moved on, the window holds two
\* requests, and the second request with the same messages was built.
C24_Witness ==
    /\ Forwarded(1) /\ Forwarded(2)
    /\ pc[1] = "done" /\ resp[1] = 200
    /\ pc[2] = "ai"
    /\ clock = MaxTime
    /\ Sent(1) = <<hey, hello>> /\ Sent(2) = <<hey, hello>>
    /\ Usage(stored[inst(2)], <<"a">>)[1].count = 2
    /\ Len(BuiltWith(2).savedPlans) = 2
    /\ aiCalls[1] = aiCalls[2]

\* C26: the activity log of a profile never holds more than maxRecentRuns
\* entries, and an append to a full log evicts its oldest entry: what is
\* persisted is the last maxRecentRuns entries of the log with the new one.
C26_BoundedLog ==
    /\ [](\A i \in Instances, e \in Emails : Len(Runs(stored[i], e)) <= maxRecentRuns)
    /\ [][\A r \in Reqs :
            (pc[r] = "upsert_set" /\ pc'[r] = "done")
                => LET before == Runs(stored[inst(r)], req[r].email)
                       after == Runs(stored'[inst(r)], req[r].email)
                   IN  Len(before) = maxRecentRuns
                          => after = Append(Tail(before), after[Len(after)])]_vars

\* The handler of r is past ensureActiveEmail.
PastEnsure(r) == pc[r] \in {"limit_get", "limit_set", "context_get", "ai"}

\* C27: a profile that exists exists after every step; a profile comes to
\* exist only in the ensureActiveEmail of a request for its identity that
\* found none, as the empty profile of that identity; and a request that is
\* past ensureActiveEmail has a profile.
C27_ProfilesOnlyGrow ==
    /\ [][\A i \in Instances, e \in Emails :
            Profile(stored[i], e) # <<>> => Profile(stored'[i], e) # <<>>]_vars
    /\ [][\A i \in Instances, e \in Emails :
            (Profile(stored[i], e) = <<>> /\ Profile(stored'[i], e) # <<>>)
                => /\ \E r \in Reqs :
                         /\ pc[r] = "ensure_set" /\ pc'[r] = "limit_get"
                         /\ inst(r) = i
                         /\ req[r].email = e
                   /\ Profile(stored'[i], e) = <<createEmptyProfile(e, clock)>>]_vars
    /\ [](\A r \in Reqs : PastEnsure(r) => Profile(stored[inst(r)], req[r].email) # <<>>)

\* The actor holds the profiles of two identities, the second made by a
\* later request than the first.
C27_Witness ==
    \E i \in Instances :
        /\ Profile(stored[i], <<"a">>) # <<>>
        /\ Profile(stored[i], <<"b">>) # <<>>
        /\ Profile(stored[i], <<"a">>)[1].createdAt # Profile(stored[i], <<"b">>)[1].createdAt
        /\ \A r \in Reqs : pc[r] = "done"

\* C28: a read of the state writes nothing and gives what is persisted, or
\* the default state when nothing is: the getState of ensureActiveEmail and
\* of assertWithinRateLimit, and the getContext whose active profile the
\* system entry is built from.
C28_ReadsDoNotWrite ==
    /\ [][\A r \in Reqs :
            (pc[r] \in {"ensure_get", "limit_get"} /\ pc'[r] \in {"ensure_set", "limit_set"})
                => /\ stored' = stored
                   /\ snap'[r] = <<IF stored[inst(r)] = <<>>
                                       THEN [activeEmail |-> <<>>,
                                             profiles |-> [e \in Emails |-> <<>>],
                                             usage |-> [e \in Emails |-> <<>>]]
                                       ELSE stored[inst(r)][1]>>]_vars
    /\ [][\A r \in Reqs :
            (pc[r] = "context_get" /\ pc'[r] = "ai")
                => /\ stored' = stored
                   /\ LET state == stored[inst(r)][1]
                      IN  aiCalls'[r][1][1] =
                             composeSystemPrompt(state.profiles[state.activeEmail])]_vars

\* A read found nothing stored, gave the default state, and nothing is
\* stored after it.
C28_Witness ==
    \E r \in Reqs :
        /\ pc[r] = "ensure_set"
        /\ stored[inst(r)] = <<>>
        /\ snap[r] = <<DEFAULT_STATE>>

\* C30: the ensureActiveEmail of a request that does not fail leaves its
\* identity as the active one and a profile for it, the empty profile of
\* that identity if there was none, and changes no profile and no usage
\* window that existed, and nothing of another actor.
C30_EnsureActive ==
    [][\A r \in Reqs :
         (pc[r] = "ensure_set" /\ pc'[r] = "limit_get")
             => LET i == inst(r)
                    e == req[r].email
                IN  /\ e = normaliseEmail(req[r].body.email[1])
                    /\ getState(stored'[i]).activeEmail = e
                    /\ Profile(stored'[i], e) # <<>>
                    /\ Profile(stored[i], e) = <<>>
                          => Profile(stored'[i], e) = <<createEmptyProfile(e, clock)>>
                    /\ \A other \in Emails :
                          /\ Profile(stored[i], other) # <<>>
                                => Profile(stored'[i], other) = Profile(stored[i], other)
                          /\ Usage(stored[i], other) # <<>>
                                => Usage(stored'[i], other) = Usage(stored[i], other)
                          /\ (other # e /\ Profile(stored[i], other) = <<>>)
                                => Profile(stored'[i], other) = <<>>
                    /\ \A j \in Instances \ {i} : stored'[j] = stored[j]]_vars

\* The third request made a the active identity again, after b, at a later
\* time than the profile of a was created.
C30_Witness ==
    /\ pc[1] = "done" /\ pc[2] = "done"
    /\ pc[3] = "limit_get"
    /\ req[3].email = <<"a">>
    /\ getState(stored[inst(3)]).activeEmail = <<"a">>
    /\ Profile(stored[inst(3)], <<"b">>) # <<>>
    /\ getTime(Profile(stored[inst(3)], <<"a">>)[1].createdAt)
          < getTime(Profile(stored[inst(3)], <<"b">>)[1].createdAt)
    /\ getTime(Profile(stored[inst(3)], <<"b">>)[1].createdAt) < clock

\* C29: upsertProfile persists, under the normalised identity, the profile
\* that was there, or the empty profile of the identity when there was none,
\* with what the mutator did to it (here one more run at the end) and
\* updatedAt set to now; it returns that persisted profile; it makes the
\* identity the active one and leaves every other profile and every usage
\* window that existed as they were, and other actors untouched.
C29_Upsert ==
    [][\A r \in Reqs :
         (pc[r] = "upsert_set" /\ pc'[r] = "done")
             => LET i == inst(r)
                    e == normaliseEmail(req[r].email)
                    base == IF Profile(stored[i], e) # <<>> THEN Profile(stored[i], e)[1]
                            ELSE createEmptyProfile(e, clock)
                IN  /\ Profile(stored'[i], e) =
                          <<[base EXCEPT !.recentRuns = Append(@, r),
                                         !.updatedAt = toISOString(clock)]>>
                    /\ reply'[r][1].body.profile = Profile(stored'[i], e)[1]
                    /\ resp'[r] = 200
                    /\ getState(stored'[i]).activeEmail = e
                    /\ Usage(stored'[i], e) # <<>>
                    /\ \A other \in Emails :
                          /\ other # e => Profile(stored'[i], other) = Profile(stored[i], other)
                          /\ Usage(stored[i], other) # <<>>
                                => Usage(stored'[i], other) = Usage(stored[i], other)
                    /\ \A j \in Instances \ {i} : stored'[j] = stored[j]]_vars

\* The third operation added a second run to the profile of a, at a later
\* time than the first, with an operation for b in between.
C29_Witness ==
    /\ \A r \in Reqs : pc[r] = "done"
    /\ Runs(stored[inst(3)], <<"a">>) = <<1, 3>>
    /\ Runs(stored[inst(3)], <<"b">>) = <<2>>
    /\ reply[3][1].body.profile = Profile(stored[inst(3)], <<"a">>)[1]
    /\ getTime(reply[3][1].body.profile.createdAt) < getTime(reply[3][1].body.profile.updatedAt)

\* The limiter decides on r exactly one window length after the start of
\* the persisted window of r's identity, and storage does not fail.
AtBoundary(r) ==
    /\ Decides(r)
    /\ resp'[r] # 500
    /\ Usage(stored[inst(r)], req[r].email) # <<>>
    /\ clock - getTime(Usage(stored[inst(r)], req[r].email)[1].windowStart) = WindowMs

\* C31 as stated: the window is reset only when now - windowStart is
\* strictly greater than the window length, so a request decided exactly at
\* windowStart + windowLength is counted in the old window, whose start
\* stays what it was.
C31_BoundaryInOldWindow ==
    [][\A r \in Reqs :
          AtBoundary(r) =>
              Usage(stored'[inst(r)], req[r].email)[1].windowStart
                  = Usage(stored[inst(r)], req[r].email)[1].windowStart]_vars

\* C31: the window is reset as soon as now - windowStart reaches the window
\* length: a request decided exactly at windowStart + windowLength is never
\* answered 429 and is the first of a new window that starts now, while a
\* request admitted before that moment is counted in the old window.
C31_BoundaryStartsNewWindow ==
    [][\A r \in Reqs :
          /\ AtBoundary(r) =>
                 /\ resp'[r] # 429
                 /\ Admits(r)
                 /\ Usage(stored'[inst(r)], req[r].email)
                        = <<[count |-> 1, windowStart |-> toISOString(clock)]>>
          /\ (Admits(r)
                /\ clock - getTime(Usage(stored[inst(r)], req[r].email)[1].windowStart)
                       < WindowMs) =>
                 LET old == Usage(stored[inst(r)], req[r].email)[1]
                 IN  Usage(stored'[inst(r)], req[r].email)
                         = <<[count |-> old.count + 1, windowStart |-> old.windowStart]>>]_vars

\* A request was answered with the stream in a window that started at 0,
\* and a later request of the same identity has just been admitted exactly
\* one window length later: the persisted window starts now with count 1.
C31_Witness ==
    \E r \in Reqs :
        /\ pc[r] = "context_get"
        /\ clock = WindowMs
        /\ Usage(stored[inst(r)], req[r].email)
               = <<[count |-> 1, windowStart |-> toISOString(WindowMs)]>>
        /\ \E q \in Reqs \ {r} : req[q].name = req[r].name /\ resp[q] = 200

\* C32: a request that the worker's payload validator accepted and the
\* worker sent to an actor is never answered 400: the actor's validator
\* accepts what the worker forwards.
C32_ForwardedNeverRefusedByActor ==
    \A r \in Reqs : Forwarded(r) => resp[r] # 400

\* C33: the step that answers a request 400 or 413 writes nothing to
\* storage and is taken before the request has read or written anything:
\* every step of a request up to and including the validation of its
\* payload leaves the persisted state of every instance as it was.
C33_RefusedPayloadWritesNothing ==
    [][\A r \in Reqs :
          /\ (Answered(r) /\ resp'[r] \in {400, 413}) =>
                 /\ pc[r] \in {"new", "parse"}
                 /\ snap[r] = <<>>
                 /\ stored' = stored
          /\ (pc[r] \in {"new", "queued", "parse"} /\ pc'[r] # pc[r]) => stored' = stored]_vars

\* A request of an identity was admitted and answered with the stream, and
\* a later request sent to the same actor was refused there with 400: the
\* active pointer, the profile and the count of one are still in storage.
C33_Witness ==
    \E q, r \in Reqs :
        /\ q < r
        /\ req[q].name = req[r].name /\ req[r].name # <<>>
        /\ resp[q] = 200
        /\ resp[r] = 400
        /\ getState(stored[inst(r)]).activeEmail = req[r].name
        /\ Profile(stored[inst(r)], req[r].name) # <<>>
        /\ Usage(stored[inst(r)], req[r].name)[1].count = 1

\* The identity the active pointer of an instance names (<<>> when unset).
Active(i) == getState(stored[i]).activeEmail

\* C34: in every persisted state reached from empty storage, an active
\* pointer that is set names a normalised identity that has a profile
\* record of that identity and a usage window; so when ensureActiveEmail
\* returns early because the pointer already names the request's identity,
\* the record and the window of that identity are in storage.
C34_ActiveHasProfileAndWindow ==
    /\ [](\A i \in Instances :
            Active(i) # undefined =>
                /\ Active(i) \in Emails
                /\ Profile(stored[i], Active(i)) # <<>>
                /\ Profile(stored[i], Active(i))[1].email = Active(i)
                /\ Usage(stored[i], Active(i)) # <<>>)
    /\ [][\A r \in Reqs :
            (pc[r] = "ensure_set" /\ pc'[r] = "limit_get"
                 /\ snap[r][1].activeEmail = normaliseEmail(req[r].email)) =>
                /\ stored' = stored
                /\ Profile(stored'[inst(r)], req[r].email) # <<>>
                /\ Usage(stored'[inst(r)], req[r].email) # <<>>]_vars

\* A chat of an identity was admitted and answered with the stream, which
\* left the pointer on that identity; the next chat of that identity has
\* returned early from ensureActiveEmail, and the record and the window
\* with the count of one are in storage.
C34_Witness ==
    \E q, r \in Reqs :
        /\ q < r
        /\ resp[q] = 200
        /\ pc[r] = "limit_get"
        /\ \A o \in Reqs \ {q, r} : pc[o] = "new"
        /\ Active(inst(r)) = req[r].email
        /\ Profile(stored[inst(r)], req[r].email) # <<>>
        /\ Usage(stored[inst(r)], req[r].email)[1].count = 1

\* The system entry of the list handed to ai.run for r.
SystemContent(r) == aiCalls[r][1][1].content

\* C35: the profile getContext returns to a request is the stored profile
\* of the request's own normalised identity and is never absent, and the
\* list handed to ai.run is built from it: its system entry carries the
\* "Email: " line of that identity and of no other, whatever identities the
\* requests before it and waiting behind it on the same actor carry.
C35_ContextOfOwnIdentity ==
    /\ [][\A r \in Reqs :
            (pc[r] = "context_get" /\ pc'[r] = "ai") =>
                /\ activeProfile(getState(stored[inst(r)])) # undefined
                /\ activeProfile(getState(stored[inst(r)]))
                       = Profile(stored[inst(r)], req[r].email)
                /\ aiCalls'[r] = some(build(req[r].messages,
                                            Profile(stored[inst(r)], req[r].email)))]_vars
    /\ [](\A r \in Reqs :
            pc[r] = "ai" =>
                /\ req[r].email = normaliseEmail(req[r].body.email[1])
                /\ BuiltWith(r).email = req[r].email
                /\ Contains(SystemContent(r), <<"Email: ">> \o req[r].email)
                /\ \A other \in Emails \ {req[r].email} :
                      ~Contains(SystemContent(r), <<"Email: ">> \o other))

\* On one actor a request of identity a was answered with the stream built
\* from the profile of a, the request of identity b that followed it is at
\* the inference call with the profile of b, and another request waits.
C35_Witness ==
    \E q, r, o \in Reqs :
        /\ resp[q] = 200
        /\ Contains(SystemContent(q), <<"Email: ", "a">>)
        /\ pc[r] = "ai"
        /\ inst(r) = inst(q)
        /\ req[r].email = <<"b">>
        /\ Contains(SystemContent(r), <<"Email: ", "b">>)
        /\ pc[o] = "queued"

\* The requests sent to the actor of a name that got as far as ai.run.
ReachedInference(n) == {r \in Reqs : req[r].name = n /\ aiCalls[r] # undefined}

\* C36: the step that answers an admitted request 500, because reading the
\* profile or the inference call failed, writes nothing: the count the
\* admission raised stays raised.  While no window has expired, every
\* request that got as far as the inference call, whether it was answered
\* with the stream or with 500, is in the count of its identity, and that
\* count is the number of them when no admitted request failed before.
C36_AdmittedStaysCharged ==
    /\ [][\A r \in Reqs :
            (Answered(r) /\ resp'[r] = 500 /\ pc[r] \in {"context_get", "ai"}) =>
                /\ stored' = stored
                /\ Usage(stored'[inst(r)], req[r].email) # <<>>
                /\ Usage(stored'[inst(r)], req[r].email)[1].count >= 1]_vars
    /\ [](\A n \in Names :
            (clock < WindowMs /\ ReachedInference(n) # {}) =>
                /\ Usage(stored[idFromName(n)], n) # <<>>
                /\ Usage(stored[idFromName(n)], n)[1].count >= Cardinality(ReachedInference(n))
                /\ (\A r \in Reqs : (req[r].name = n /\ resp[r] = 500) => aiCalls[r] # undefined)
                       => Usage(stored[idFromName(n)], n)[1].count
                              = Cardinality(ReachedInference(n)
                                            \cup {r \in Reqs : req[r].name = n
                                                                  /\ pc[r] = "context_get"}))

\* Of three requests of one identity the first was answered with the
\* stream, the inference call of the second failed with 500, and the third
\* met the ceiling: the failed one is still in the count.
C36_Witness ==
    \E q, r, o \in Reqs :
        /\ req[q].name = req[r].name /\ req[o].name = req[r].name
        /\ resp[q] = 200
        /\ resp[r] = 500 /\ aiCalls[r] # undefined
        /\ resp[o] = 429
        /\ Usage(stored[inst(r)], req[r].name)[1].count = Limit

\* C37: the step in which the limiter decides on a request, whatever it
\* decides, leaves the active pointer, every profile, the usage window of
\* every other identity and the storage of every other actor as they were;
\* it changes the window of the request's identity only when it admits the
\* request, and nothing at all when it answers 429 or 500.
C37_LimiterFrame ==
    [][\A r \in Reqs :
          Decides(r) =>
              LET i == inst(r)
                  e == req[r].email
              IN  /\ getState(stored'[i]).activeEmail = getState(stored[i]).activeEmail
                  /\ getState(stored'[i]).profiles = getState(stored[i]).profiles
                  /\ \A other \in Emails \ {e} :
                        Usage(stored'[i], other) = Usage(stored[i], other)
                  /\ \A j \in Instances \ {i} : stored'[j] = stored[j]
                  /\ Usage(stored'[i], e) # Usage(stored[i], e) => Admits(r)
                  /\ ~Admits(r) => stored' = stored]_vars

\* On one actor a request of identity a was answered with the stream and a
\* request of identity b has just been admitted: the window of a still has
\* its count of one, both profiles are there, and the pointer names b.
C37_Witness ==
    \E q, r \in Reqs :
        /\ resp[q] = 200
        /\ pc[r] = "context_get"
        /\ inst(r) = inst(q)
        /\ req[r].email = <<"b">>
        /\ Usage(stored[inst(r)], <<"b">>)[1].count = 1
        /\ Usage(stored[inst(r)], <<"a">>) # <<>>
        /\ Usage(stored[inst(r)], <<"a">>)[1].count = 1
        /\ Profile(stored[inst(r)], <<"a">>) # <<>>
        /\ Profile(stored[inst(r)], <<"b">>) # <<>>
        /\ Active(inst(r)) = <<"b">>
====
